---- MODULE Spec2Model ----
(***************************************************************************)
(* easycert: a command-line wrapper around the openssl binary that keeps a *)
(* small certification authority under <home>/.cert.                       *)
(*                                                                         *)
(* The repository holds several generations of the same program.  Three of *)
(* them are modelled, selected by the variable `variant`:                  *)
(*   "flags"   easycert.go + action.go      (-setup, -ca, -new-req, -sign) *)
(*   "subcmd"  cmd_init.go, cmd_ca.go, cmd_req.go, cmd_sign.go             *)
(*             (init, ca, req, sign sub-commands)                          *)
(*   "rootca"  unnamed/part_009 + unnamed/part_007 (-root-ca, -req, -sign) *)
(*                                                                         *)
(* One action is one whole process invocation: the program is              *)
(* single-threaded and exits at the end of each operation.  A process is   *)
(* computed by threading a run record                                      *)
(*   [fs, exit, msg, tool, config, years, failAt]                          *)
(* through operators that follow the statements of the source; once `exit` *)
(* is set (log.Fatal, os.Exit) the remaining operators leave the record    *)
(* alone.                                                                  *)
(*                                                                         *)
(* Environment.  The file system is reliable: a system call fails only for *)
(* the reason its arguments give (Mkdir of an existing directory, ...).    *)
(* The openssl binary is modelled by what its documented sub-commands read *)
(* and write (OpensslReq, OpensslCA); any call may also fail for reasons   *)
(* of its own, chosen by the input failAt, and a failing call writes       *)
(* nothing.  NAME arguments are drawn from UserNames, which leaves out the *)
(* CA's own name.                                                          *)
(*                                                                         *)
(* In the "subcmd" sources File.Cert, File.Key and File.Request are filled *)
(* by setCertPath, which is not among the source files; they are taken to  *)
(* be the conventional paths of the name, as easycert.go:299-310 sets them.*)
(***************************************************************************)
EXTENDS Integers, Sequences, FiniteSets, TLC

\* ---------------------------------------------------------------- bounds
MaxKeys == 2
MaxSerial == 3
MaxYears == 2
MaxRsaArg == 4200
RsaSlack == 3
MaxHostTokens == 2
MaxRuns == 4
MaxPermKeys == 3
MaxBlockLen == 37

\* ------------------------------------------------------------- constants
NAME_CA == "ca"
UserNames == {"a", "b"}
AllNames == UserNames \cup {NAME_CA}
NoName == ""
NoYears == 0 - 1
Running == 0 - 1
Variants == {"flags", "subcmd", "rootca"}
DirNames == {"root", "certs", "private", "newcerts", "crl"}
FailPoints == {0, 1, 2}

DefaultYears == 1
CAYears == 10
DefaultRSASize == 2048
MinRSASize == 2048
RSAStep == 1024
DaysPerYear == 365

errMinSize == "key size must be at least of 2048"
errSize == "key size must be multiple of 1024"

MsgRootExists == "The directory structure exists"
MsgCAExists == "The certification authority's certificate exists"
MsgReqExists == "Certificate request already exists"
MsgCertExists == "Certificate already exists"
MsgMissingArg == "Missing required argument"
MsgTemplate == "Configuration template not found"
MsgMkdir == "mkdir"
MsgParse == "Parsing error in configuration"
MsgTool == "exit status"
MsgUsage == "usage"

EXT_CERT == ".crt"
EXT_KEY == ".key"
EXT_REQUEST == ".csr"
MsgRemove == "remove"
MsgChmod == "chmod"
MsgLsFlag == "Missing required flag in -ls"
NoArgv == [cmd |-> "none"]
NoPath == [dir |-> "", base |-> <<>>, ext |-> ""]
NoGen == [there |-> FALSE, CACert |-> <<>>, Cert |-> <<>>, Key |-> <<>>]
NoFiles == [srv |-> NoGen, clt |-> NoGen]
NoMode ==
  [key |-> [n \in AllNames |-> "none"], private |-> "none",
   root |-> FALSE]
Procs == {1, 2}
IdleProc ==
  [pc |-> "idle", cmd |-> "none", name |-> NoName, exit |-> 0, msg |-> "",
   config |-> "none", wrote |-> 0]
NoProcs ==
  [run |-> [p \in Procs |-> IdleProc], keyRO |-> {}, root |-> FALSE,
   runs |-> 0]

NoCsr == [present |-> FALSE, key |-> 0, config |-> "none"]
NoCrt == [present |-> FALSE, serial |-> 0, days |-> 0, key |-> 0,
          config |-> "none", selfsign |-> FALSE]

VARIABLES
  variant,     \* which generation of the program is installed
  fs,          \* the file system below <home>
  last,        \* what the last invocation was given and what it reported
  invocation,  \* parity of the number of invocations run so far
  RSASize,     \* the rsaSizeFlag value of the running process
  rsaErr,      \* the error returned by the last rsaSizeFlag.Set
  rsaArg,      \* the integer given to the last rsaSizeFlag.Set
  Host,        \* the hostFlag value of the running process
  hostErr,     \* the error returned by the last hostFlag.Set
  hostArg,     \* the string given to the last hostFlag.Set
  argv,        \* the flags and arguments of the last read-only invocation
  stdout,      \* what that invocation printed, line by line
  toolFile,    \* the path that cat, chk or info last gave to the tool
  cwd,         \* the generated source files of the working directory
  procs,       \* the invocations that run at the same time, step by step
  mode         \* the modes of the keys and of private, and who the user is

rsaVars == <<RSASize, rsaErr, rsaArg>>
hostVars == <<Host, hostErr, hostArg>>
ioVars == <<argv, stdout, toolFile, cwd, procs, mode>>
vars == <<variant, fs, last, invocation, rsaVars, hostVars, ioVars>>

\* The file system of a fresh home directory.
EmptyFS ==
  [dirs |-> {}, config |-> FALSE, configTmpl |-> FALSE,
   hasIndex |-> FALSE, index |-> <<>>, serial |-> 0,
   csr |-> [n \in AllNames |-> NoCsr],
   key |-> [n \in AllNames |-> 0],
   crt |-> [n \in AllNames |-> NoCrt],
   cfg |-> [n \in AllNames |-> FALSE],
   nkeys |-> 0]

NoLast ==
  [cmd |-> "none", name |-> NoName, exit |-> 0, msg |-> "", tool |-> 0,
   config |-> "none", yearsArg |-> NoYears, envFail |-> FALSE]

\* A process that has just started on file system f.
Start(f, years, failAt) ==
  [fs |-> f, exit |-> Running, msg |-> "", tool |-> 0, config |-> "none",
   years |-> years, failAt |-> failAt]

\* log.Fatal / log.Fatalf: print and exit with status 1.
Fatal(st, msg) ==
  IF st.exit # Running THEN st ELSE [st EXCEPT !.exit = 1, !.msg = msg]

\* os.Exit(code), or the return from main.
Exit(st, code) ==
  IF st.exit # Running THEN st ELSE [st EXCEPT !.exit = code]

\* os.Mkdir(d, 0755): fails when d exists or its parent does not.
MkdirAlways(st, d) ==
  IF st.exit # Running THEN st
  ELSE IF d # "root" /\ "root" \notin st.fs.dirs THEN Fatal(st, MsgMkdir)
  ELSE [st EXCEPT !.fs.dirs = @ \cup {d}]

Mkdir(st, d) ==
  IF st.exit # Running THEN st
  ELSE IF d \in st.fs.dirs \/ (d # "root" /\ "root" \notin st.fs.dirs)
       THEN Fatal(st, MsgMkdir)
       ELSE [st EXCEPT !.fs.dirs = @ \cup {d}]

\* os.Create(File.Index): an empty index.txt.
CreateIndex(st) ==
  IF st.exit # Running THEN st
  ELSE IF "root" \notin st.fs.dirs THEN Fatal(st, "create")
  ELSE [st EXCEPT !.fs.hasIndex = TRUE, !.fs.index = <<>>]

\* os.Create(File.Serial) and the write of "01\n".
CreateSerialOther(st) ==
  IF st.exit # Running THEN st
  ELSE IF "root" \notin st.fs.dirs THEN Fatal(st, "create")
  ELSE [st EXCEPT !.fs.serial = 2]

CreateSerial(st) ==
  IF st.exit # Running THEN st
  ELSE IF "root" \notin st.fs.dirs THEN Fatal(st, "create")
  ELSE [st EXCEPT !.fs.serial = 1]

\* os.Remove(File.Request): an error is only logged.
RemoveRequestAlways(st, name) == [st EXCEPT !.fs.csr[name] = NoCsr]
RemoveRequest(st, name) ==
  IF st.exit # Running THEN st ELSE [st EXCEPT !.fs.csr[name] = NoCsr]

\* Does the configuration file of kind k exist for name?
ConfigExists(f, k, name) ==
  IF k = "srv" THEN f.cfg[name] ELSE f.config

\* openssl(args...): the call number, and whether the environment fails it.
ToolFails(st) == st.failAt = st.tool + 1

ToolExit(st) ==
  [st EXCEPT !.tool = @ + 1, !.exit = 1, !.msg = MsgTool]

\* openssl req -new -config <k> -keyout private/<name>.key -out <name>.csr
OpensslReq(st, name, k) ==
  IF st.exit # Running THEN st
  ELSE IF \/ ToolFails(st)
          \/ ~ConfigExists(st.fs, k, name)
          \/ "root" \notin st.fs.dirs
          \/ "private" \notin st.fs.dirs
       THEN ToolExit(st)
       ELSE [st EXCEPT !.tool = @ + 1,
                       !.fs.nkeys = @ + 1,
                       !.fs.key[name] = st.fs.nkeys + 1,
                       !.fs.csr[name] = [present |-> TRUE,
                                         key |-> st.fs.nkeys + 1,
                                         config |-> k]]

\* openssl ca -config <k> -in <name>.csr -out certs/<name>.crt -days <days>
\* [-selfsign -keyfile private/<name>.key].  It reads the database
\* (index.txt), the serial file and the CA's certificate and key that the
\* configuration names, writes the certificate, copies it to newcerts,
\* appends to the database and stores the next serial.  (-create_serial only
\* matters when the serial file is missing; the program always creates
\* index.txt and serial together.)
OpensslCANoDatabase(st, name, k, days, selfsign) ==
  IF st.exit # Running THEN st
  ELSE LET f == st.fs
           st1 == [st EXCEPT !.config = k]
       IN IF \/ ToolFails(st)
             \/ ~ConfigExists(f, k, name)
             \/ ~f.csr[name].present
             \/ (selfsign /\ f.key[name] # f.csr[name].key)
             \/ (~selfsign /\ ~f.crt[NAME_CA].present)
             \/ (~selfsign /\ f.key[NAME_CA] = 0)
             \/ (~selfsign /\ f.key[NAME_CA] # f.crt[NAME_CA].key)
          THEN ToolExit(st1)
          ELSE [st1 EXCEPT !.tool = @ + 1,
                           !.fs.crt[name] = [present |-> TRUE,
                                             serial |-> f.serial,
                                             days |-> days,
                                             key |-> f.csr[name].key,
                                             config |-> k,
                                             selfsign |-> selfsign],
                           !.fs.index = Append(@, f.serial),
                           !.fs.serial = @ + 1]

OpensslCA(st, name, k, days, selfsign) ==
  IF st.exit # Running THEN st
  ELSE LET f == st.fs
           st1 == [st EXCEPT !.config = k]
       IN IF \/ ToolFails(st)
             \/ ~ConfigExists(f, k, name)
             \/ ~f.csr[name].present
             \/ ~f.hasIndex
             \/ f.serial = 0
             \/ "newcerts" \notin f.dirs
             \/ "certs" \notin f.dirs
             \/ (selfsign /\ f.key[name] # f.csr[name].key)
             \/ (~selfsign /\ ~f.crt[NAME_CA].present)
             \/ (~selfsign /\ f.key[NAME_CA] = 0)
             \/ (~selfsign /\ f.key[NAME_CA] # f.crt[NAME_CA].key)
          THEN ToolExit(st1)
          ELSE [st1 EXCEPT !.tool = @ + 1,
                           !.fs.crt[name] = [present |-> TRUE,
                                             serial |-> f.serial,
                                             days |-> days,
                                             key |-> f.csr[name].key,
                                             config |-> k,
                                             selfsign |-> selfsign],
                           !.fs.index = Append(@, f.serial),
                           !.fs.serial = @ + 1]

\* ------------------------------------------------ action.go (and part_007)

\* BuildCA creates a certification authority (RootCA in part_007).
BuildCA(st) ==
  LET s1 == OpensslReq(st, NAME_CA, "main")
      s2 == OpensslCA(s1, NAME_CA, "main", DaysPerYear * st.years, TRUE)
  IN RemoveRequest(s2, NAME_CA)

\* NewRequest creates a certificate request.
NewRequest(st, name) == OpensslReq(st, name, "main")

\* SignReq signs a certificate request generating a new certificate.
SignReq(st, name) ==
  LET s1 == OpensslCA(st, name, "main", DaysPerYear * st.years, FALSE)
  IN RemoveRequest(s1, name)

\* ------------------------------------------------------------ easycert.go

\* The template is read from the installed package and rendered into
\* openssl.cfg and openssl.cfg.tmpl.
ConfigFromTemplate(st, tmplOk, withServerTmpl) ==
  IF st.exit # Running THEN st
  ELSE IF ~tmplOk THEN Fatal(st, MsgTemplate)
  ELSE [st EXCEPT !.fs.config = TRUE,
                  !.fs.configTmpl = @ \/ withServerTmpl]

\* Setup makes the directory structure.
Setup(st, isCA, tmplOk) ==
  LET s1 == Mkdir(Mkdir(Mkdir(st, "root"), "certs"), "private")
      s2 == IF isCA
            THEN CreateSerial(CreateIndex(Mkdir(Mkdir(s1, "newcerts"), "crl")))
            ELSE s1
  IN ConfigFromTemplate(s2, tmplOk, TRUE)

\* if _, err := os.Stat(File.Request); !os.IsNotExist(err) { log.Fatalf }
CheckRequestSkip(st, name) == st

CheckRequest(st, name) ==
  IF st.exit # Running THEN st
  ELSE IF st.fs.csr[name].present THEN Fatal(st, MsgReqExists) ELSE st

\* if _, err := os.Stat(File.Cert); !os.IsNotExist(err) { log.Fatalf }
CheckCertSkip(st, name) == st

CheckCert(st, name) ==
  IF st.exit # Running THEN st
  ELSE IF st.fs.crt[name].present THEN Fatal(st, MsgCertExists) ELSE st

\* if _, err := os.Stat(Dir.Root); !os.IsNotExist(err) { log.Fatalf }
CheckRoot(st) ==
  IF st.exit # Running THEN st
  ELSE IF "root" \in st.fs.dirs THEN Fatal(st, MsgRootExists) ELSE st

\* if _, err := os.Stat(File.Cert); !os.IsNotExist(err) { log.Fatal }
CheckCACertSkip(st) == st

CheckCACert(st) ==
  IF st.exit # Running THEN st
  ELSE IF st.fs.crt[NAME_CA].present THEN Fatal(st, MsgCAExists) ELSE st

\* if f.DefValue == f.Value.String() { *Years = 10 }
SetCAYears(st) ==
  IF st.exit # Running THEN st
  ELSE IF st.years = DefaultYears THEN [st EXCEPT !.years = CAYears] ELSE st

\* The value of *Years after flag.Parse.
ParsedYears(init, yearsArg) == IF yearsArg = NoYears THEN init ELSE yearsArg

\* main of easycert.go, for the flags -setup -ca -new-req -sign -years.
MainFlags(f, IsSetup, IsCA, IsNewRequest, IsSignReq, arg, yearsArg, tmplOk, failAt) ==
  LET s0 == Start(f, ParsedYears(DefaultYears, yearsArg), failAt)
      s1 == IF ~(IsSetup \/ IsCA \/ IsNewRequest \/ IsSignReq)
               /\ yearsArg = NoYears
            THEN [Exit(s0, 2) EXCEPT !.msg = MsgUsage] ELSE s0
      filename == IF IsCA THEN NAME_CA ELSE arg
      s2 == IF (IsNewRequest \/ IsSignReq) /\ ~IsCA /\ arg = NoName
            THEN Fatal(s1, MsgMissingArg) ELSE s1
      s3 == IF IsNewRequest
            THEN NewRequest(CheckRequest(s2, filename), filename) ELSE s2
      s4 == IF IsSignReq
            THEN Exit(SignReq(CheckCert(s3, filename), filename), 0) ELSE s3
      s5 == IF IsNewRequest THEN Exit(s4, 0) ELSE s4
      s6 == IF IsSetup THEN Setup(CheckRoot(s5), IsCA, tmplOk) ELSE s5
      s7 == IF IsCA THEN BuildCA(CheckCACert(SetCAYears(s6))) ELSE s6
  IN Exit(s7, 0)

\* ----------------------------------------------------- unnamed/part_009

\* SetupDir creates the directory structure.
SetupDir(st, tmplOk) ==
  LET s1 == Mkdir(Mkdir(Mkdir(Mkdir(Mkdir(st, "root"), "certs"), "newcerts"),
                        "private"), "crl")
      s2 == CreateSerial(CreateIndex(s1))
  IN ConfigFromTemplate(s2, tmplOk, FALSE)

\* *_Years = 10
ForceCAYears(st) ==
  IF st.exit # Running THEN st ELSE [st EXCEPT !.years = CAYears]

\* main of part_009, for the flags -root-ca -req -sign -years.
MainRootCA(f, IsRootCA, IsRequest, IsSignReq, arg, yearsArg, tmplOk, failAt) ==
  LET s0 == Start(f, ParsedYears(DefaultYears, yearsArg), failAt)
      s1 == IF ~IsRootCA /\ arg = NoName
            THEN [Exit(s0, 2) EXCEPT !.msg = MsgUsage] ELSE s0
      filename == IF IsRootCA THEN NAME_CA ELSE arg
      s2 == IF IsRequest
            THEN NewRequest(CheckRequest(s1, filename), filename) ELSE s1
      s3 == IF IsSignReq
            THEN Exit(SignReq(CheckCert(s2, filename), filename), 0) ELSE s2
      s4 == IF IsRequest THEN Exit(s3, 0) ELSE s3
      s5 == IF IsRootCA
            THEN Exit(BuildCA(ForceCAYears(SetupDir(CheckRoot(s4), tmplOk))), 0)
            ELSE s4
  IN [Exit(s5, 2) EXCEPT !.msg = IF s5.exit = Running THEN MsgUsage ELSE @]

\* ------------------------------------------ cmd_info.go, cmd_init.go, ...

\* flagsForNewCert, run from the init function of a command: the value it
\* leaves in *Years, given the value found there.
flagsForNewCert(cmdName, years) ==
  IF cmdName = "ca" /\ years = DefaultYears THEN CAYears ELSE years

\* *Years when main starts: cmd_ca.go's init has called flagsForNewCert.
YearsAfterInit == flagsForNewCert("ca", DefaultYears)

\* runInit makes the directory structure.
runInit(st, tmplOk) ==
  LET s1 == Mkdir(Mkdir(Mkdir(st, "root"), "certs"), "private")
  IN ConfigFromTemplate(s1, tmplOk, TRUE)

\* runCA creates the CA's files and the certification authority.
runCA(st) ==
  LET s0 == IF st.fs.crt[NAME_CA].present THEN Fatal(st, MsgCAExists) ELSE st
      s1 == CreateSerial(CreateIndex(Mkdir(Mkdir(s0, "newcerts"), "crl")))
      s2 == OpensslReq(s1, NAME_CA, "main")
      s3 == OpensslCA(s2, NAME_CA, "main", DaysPerYear * st.years, TRUE)
  IN RemoveRequest(s3, NAME_CA)

\* serverConfig renders openssl.cfg.tmpl into <root>/NAME.cfg.
serverConfig(st, name) ==
  IF st.exit # Running THEN st
  ELSE IF ~st.fs.configTmpl THEN Fatal(st, MsgParse)
  ELSE [st EXCEPT !.fs.cfg[name] = TRUE]

\* The configuration SignReq of cmd_sign.go hands to openssl.
SignConfigMain(f, name) == "main"

SignConfig(f, name) == IF f.cfg[name] THEN "srv" ELSE "main"

\* SignReq of cmd_sign.go.
SignReqCmd(st, name) ==
  IF st.exit # Running THEN st
  ELSE IF st.fs.crt[name].present THEN Fatal(st, MsgCertExists)
  ELSE LET k == SignConfig(st.fs, name)
           s1 == OpensslCA(st, name, k, DaysPerYear * st.years, FALSE)
           s2 == RemoveRequest(s1, name)
       IN IF s2.exit # Running \/ k # "srv" THEN s2
          ELSE [s2 EXCEPT !.fs.cfg[name] = FALSE]

\* runReq creates a certificate request, and signs it with -sign.
runReq(st, name, host, isSign) ==
  LET s0 == IF name = NoName THEN Fatal(st, MsgMissingArg) ELSE st
      s1 == IF s0.exit = Running /\ s0.fs.csr[name].present
            THEN Fatal(s0, MsgReqExists) ELSE s0
      s2 == IF host THEN serverConfig(s1, name) ELSE s1
      s3 == OpensslReq(s2, name, IF host THEN "srv" ELSE "main")
  IN IF isSign THEN SignReqCmd(s3, name) ELSE s3

\* runSign signs a certificate request.
runSign(st, name) ==
  LET s0 == IF name = NoName THEN [Exit(st, 2) EXCEPT !.msg = MsgUsage] ELSE st
  IN SignReqCmd(s0, name)

\* main of part_000: the sub-command has returned, and so does main.
Dispatch(st) == Exit(st, 0)

\* ------------------------------------------------- cmd.go: rsaSizeFlag

\* rsaSizeFlag.Set for an integer i, on the stored size s: the new stored
\* size and the error returned ("" for nil).
rsaSizeFlagSetEarly(s, i) ==
  IF i < MinRSASize THEN [size |-> s, err |-> errMinSize]
  ELSE IF i % RSAStep # 0 THEN [size |-> i, err |-> errSize]
  ELSE [size |-> i, err |-> ""]

rsaSizeFlagSet(s, i) ==
  IF i < MinRSASize THEN [size |-> s, err |-> errMinSize]
  ELSE IF i % RSAStep # 0 THEN [size |-> s, err |-> errSize]
  ELSE [size |-> i, err |-> ""]

\* ------------------------------------------------ cmd_req.go: hostFlag

\* Strings that the program takes apart are sequences of one-character
\* strings.  The strings considered hold no colon, so that ParseIP only
\* ever tries the dotted-decimal form.
errHost == "must be an IP or DNS"
NoHost == [ip |-> <<>>, dns |-> <<>>]
Digits == <<"0", "1", "2", "3", "4", "5", "6", "7", "8", "9">>

IsDigit(c) == \E i \in 1..Len(Digits) : Digits[i] = c
DigitVal(c) == (CHOOSE i \in 1..Len(Digits) : Digits[i] = c) - 1

\* strings.TrimSpace
RECURSIVE TrimLeft(_)
TrimLeft(s) == IF s # <<>> /\ Head(s) = " " THEN TrimLeft(Tail(s)) ELSE s

RECURSIVE TrimRight(_)
TrimRight(s) ==
  IF s # <<>> /\ s[Len(s)] = " "
  THEN TrimRight(SubSeq(s, 1, Len(s) - 1)) ELSE s

TrimSpace(s) == TrimRight(TrimLeft(s))

\* strings.Split(s, sep) for a separator of one character.
RECURSIVE Split(_, _)
Split(s, sep) ==
  IF \A i \in 1..Len(s) : s[i] # sep THEN <<s>>
  ELSE LET i == CHOOSE k \in 1..Len(s) :
                  s[k] = sep /\ \A j \in 1..(k - 1) : s[j] # sep
       IN <<SubSeq(s, 1, i - 1)>> \o Split(SubSeq(s, i + 1, Len(s)), sep)

\* strings.Join(a, sep)
RECURSIVE Join(_, _)
Join(a, sep) ==
  IF a = <<>> THEN <<>>
  ELSE IF Len(a) = 1 THEN a[1]
  ELSE a[1] \o sep \o Join(Tail(a), sep)

\* strings.ContainsRune(s, c)
ContainsRune(s, c) == \E i \in 1..Len(s) : s[i] = c

\* dtoi of package net: the decimal number s starts with, the number of
\* characters it takes, and whether there is one.
RECURSIVE dtoiFrom(_, _, _)
dtoiFrom(s, i, n) ==
  IF i <= Len(s) /\ IsDigit(s[i]) /\ n < 16777215
  THEN dtoiFrom(s, i + 1, n * 10 + DigitVal(s[i]))
  ELSE [n |-> n, c |-> i - 1]

dtoi(s) ==
  LET r == dtoiFrom(s, 1, 0)
  IN [n |-> r.n, c |-> r.c, ok |-> r.c > 0 /\ r.n < 16777215]

\* parseIPv4 of package net: the four bytes, or <<>> for nil.  A field
\* with a leading zero is refused.
RECURSIVE parseIPv4From(_, _)
parseIPv4From(s, p) ==
  IF Len(p) = 4 THEN (IF s = <<>> THEN p ELSE <<>>)
  ELSE IF s = <<>> THEN <<>>
  ELSE IF Len(p) > 0 /\ Head(s) # "." THEN <<>>
  ELSE LET t == IF Len(p) > 0 THEN Tail(s) ELSE s
           d == dtoi(t)
       IN IF ~d.ok \/ d.n > 255 THEN <<>>
          ELSE IF d.c > 1 /\ Head(t) = "0" THEN <<>>
          ELSE parseIPv4From(SubSeq(t, d.c + 1, Len(t)), Append(p, d.n))

parseIPv4(s) == parseIPv4From(s, <<>>)

\* net.ParseIP: nil for a string without a dot (and without a colon).
ParseIP(s) == IF ContainsRune(s, ".") THEN parseIPv4(s) ELSE <<>>

\* strconv.Itoa for a natural number.
RECURSIVE Itoa(_)
Itoa(n) ==
  IF n < 10 THEN <<Digits[n + 1]>>
  ELSE Itoa(n \div 10) \o <<Digits[(n % 10) + 1]>>

\* IP.String for a four-byte address.
IPString(ip) == Join([i \in 1..Len(ip) |-> Itoa(ip[i])], <<".">>)

\* One round of the loop of hostFlag.Set, on the token v; once an error has
\* been returned nothing more is appended.
HostAppendAny(h, v) ==
  LET t == TrimSpace(v)
      ip == ParseIP(t)
  IN IF h.err # "" THEN h
     ELSE IF ip # <<>>
          THEN [h EXCEPT !.ip = Append(@, <<"I", "P", ":">> \o IPString(ip))]
          ELSE [h EXCEPT !.dns = Append(@, <<"D", "N", "S", ":">> \o t)]

HostAppend(h, v) ==
  LET t == TrimSpace(v)
      ip == ParseIP(t)
  IN IF h.err # "" THEN h
     ELSE IF ip # <<>>
          THEN [h EXCEPT !.ip = Append(@, <<"I", "P", ":">> \o IPString(ip))]
     ELSE IF ContainsRune(t, ".")
          THEN [h EXCEPT !.dns = Append(@, <<"D", "N", "S", ":">> \o t)]
     ELSE [h EXCEPT !.err = errHost]

RECURSIVE HostAppendAll(_, _)
HostAppendAll(h, toks) ==
  IF toks = <<>> THEN h
  ELSE HostAppendAll(HostAppend(h, Head(toks)), Tail(toks))

\* hostFlag.Set on the value h: the new value and the error returned.
hostFlagSet(h, value) ==
  HostAppendAll([ip |-> h.ip, dns |-> h.dns, err |-> ""], Split(value, ","))

\* hostFlag.String
hostFlagStringDnsFirst(h) ==
  LET ip == Join(h.ip, <<",", " ">>)
      dns == Join(h.dns, <<",", " ">>)
  IN IF Len(ip) # 0 /\ Len(dns) # 0 THEN dns \o <<",", " ">> \o ip
     ELSE ip \o dns

hostFlagString(h) ==
  LET ip == Join(h.ip, <<",", " ">>)
      dns == Join(h.dns, <<",", " ">>)
  IN IF Len(ip) # 0 /\ Len(dns) # 0 THEN ip \o <<",", " ">> \o dns
     ELSE ip \o dns

\* --------------------------------------------- ls: cmd_ls.go, easycert.go

\* The names in the order filepath.Glob returns them (sorted).
NameOrder == <<"a", "b", NAME_CA>>

\* Is there a file <name><ext> in the directory that holds that kind?
FileExists(f, name, ext) ==
  IF ext = EXT_CERT THEN f.crt[name].present
  ELSE IF ext = EXT_REQUEST THEN f.csr[name].present
  ELSE f.key[name] # 0

\* filepath.Glob(filepath.Join(dir, "*"+ext)): the paths that match.
Glob(f, ext) ==
  LET found == SelectSeq(NameOrder, LAMBDA n : FileExists(f, n, ext))
  IN [i \in 1..Len(found) |-> <<found[i], ext>>]

\* printCert prints the base names on one line, and nothing for no match.
printCert(out, match) == IF Len(match) = 0 THEN out ELSE Append(out, match)

\* runLs of cmd_ls.go: exit status, message and lines printed.
runLs(f, IsCert, IsRequest, IsKey) ==
  LET all == ~IsCert /\ ~IsRequest /\ ~IsKey
      o1 == IF IsCert \/ all THEN printCert(<<>>, Glob(f, EXT_CERT)) ELSE <<>>
      o2 == IF IsRequest \/ all THEN printCert(o1, Glob(f, EXT_REQUEST))
            ELSE o1
      o3 == IF IsKey \/ all THEN printCert(o2, Glob(f, EXT_KEY)) ELSE o2
  IN [exit |-> 0, msg |-> "", out |-> o3]

\* The -ls branch of main in easycert.go.
MainList(f, IsCert, IsRequest, IsKey) ==
  LET o1 == IF IsCert THEN printCert(<<>>, Glob(f, EXT_CERT)) ELSE <<>>
      o2 == IF IsRequest THEN printCert(o1, Glob(f, EXT_REQUEST)) ELSE o1
      o3 == IF IsKey THEN printCert(o2, Glob(f, EXT_KEY)) ELSE o2
      isExit == IsCert \/ IsRequest \/ IsKey
  IN IF ~isExit THEN [exit |-> 1, msg |-> MsgLsFlag, out |-> o3]
     ELSE [exit |-> 0, msg |-> "", out |-> o3]

\* ------------------- cat, chk, info: easycert.go, part_000, part_005

MsgNoFile == "File does not exists"
MsgCatFlag == "Missing required flag in -cat"
MsgInfoFlag == "Missing required flag in -info"
MsgChkFlag == "Missing required flag in -chk"
PathSeparator == "/"

\* The characters of the file names.
Chars == [n \in AllNames |-> IF n = NAME_CA THEN <<"c", "a">> ELSE <<n>>]

\* filepath.Join(dir, v+ext), and a path that is used as it was given.
JoinPath(dir, v, ext) == [dir |-> dir, base |-> v, ext |-> ext]
AsPath(v) == [dir |-> "", base |-> v, ext |-> ""]

\* The files outside of the directory structure, by the path given for them.
ExternFiles == {<<".", "/", "x">>, <<"/", "x">>}

\* os.Stat(p) finds a file.
Stat(f, p) ==
  IF p.dir = "" THEN p.base \in ExternFiles
  ELSE \E n \in AllNames : Chars[n] = p.base /\ FileExists(f, n, p.ext)

\* getFilePath of part_000, for the one argument v: newArgs[0] is assigned
\* for a bare name only, and is looked for whatever it holds.
getFilePath(f, cmdName, v, IsCert, IsRequest, IsKey) ==
  LET newArg ==
        IF /\ cmdName \in {"cat", "chk", "info"}
           /\ v[1] # "."
           /\ v[1] # PathSeparator
        THEN IF IsCert \/ cmdName = "info" THEN JoinPath("certs", v, EXT_CERT)
             ELSE IF IsRequest THEN JoinPath("root", v, EXT_REQUEST)
             ELSE IF IsKey THEN JoinPath("private", v, EXT_KEY)
             ELSE NoPath
        ELSE NoPath
  IN IF ~Stat(f, newArg) THEN [file |-> NoPath, err |-> MsgNoFile]
     ELSE [file |-> newArg, err |-> ""]

\* The file name that main of easycert.go works out for -cat, -info, -chk.
MainFileName(v, IsInfo, IsCert, IsRequest, IsKey) ==
  IF v[1] # "." /\ v[1] # PathSeparator
  THEN IF IsCert \/ IsInfo THEN JoinPath("certs", v, EXT_CERT)
       ELSE IF IsRequest THEN JoinPath("root", v, EXT_REQUEST)
       ELSE IF IsKey THEN JoinPath("private", v, EXT_KEY)
       ELSE AsPath(v)
  ELSE AsPath(v)

\* A process that reads: exit status, message, what it has printed, the
\* number of calls of the tool and the file of the last call.
StartRead ==
  [exit |-> Running, msg |-> "", out |-> <<>>, tool |-> 0, file |-> NoPath]
FatalRead(r, msg) ==
  IF r.exit # Running THEN r ELSE [r EXCEPT !.exit = 1, !.msg = msg]
ExitRead(r, code) ==
  IF r.exit # Running THEN r ELSE [r EXCEPT !.exit = code]

\* fmt.Print(openssl(... "-in", p)): the tool prints what it was asked
\* for, or fails on a file that it cannot read and ends the process.
opensslIn(r, f, p, fields) ==
  IF r.exit # Running THEN r
  ELSE IF ~Stat(f, p)
  THEN [r EXCEPT !.exit = 1, !.msg = MsgTool, !.tool = @ + 1, !.file = p]
  ELSE [r EXCEPT !.out = Append(@, fields), !.tool = @ + 1, !.file = p]

InfoFull(r, f, p) == opensslIn(r, f, p, <<"subject", "issuer", "enddate">>)
InfoEndDate(r, f, p) == opensslIn(r, f, p, <<"enddate">>)
InfoHash(r, f, p) == opensslIn(r, f, p, <<"hash">>)
InfoIssuer(r, f, p) == opensslIn(r, f, p, <<"issuer">>)
InfoName(r, f, p) == opensslIn(r, f, p, <<"subject">>)

\* The four calls of runInfo and of main, each under its flag.
InfoFields(r, f, p, IsEndDate, IsHash, IsIssuer, IsName) ==
  LET r1 == IF IsEndDate THEN InfoEndDate(r, f, p) ELSE r
      r2 == IF IsHash THEN InfoHash(r1, f, p) ELSE r1
      r3 == IF IsIssuer THEN InfoIssuer(r2, f, p) ELSE r2
  IN IF IsName THEN InfoName(r3, f, p) ELSE r3

\* runInfo of part_005; args holds the arguments after the flags.
runInfo(f, args, IsEndDate, IsHash, IsIssuer, IsName) ==
  IF Len(args) # 1 THEN [ExitRead(StartRead, 2) EXCEPT !.msg = MsgUsage]
  ELSE
    LET g == getFilePath(f, "info", args[1], FALSE, FALSE, FALSE)
        run == IsEndDate \/ IsHash \/ IsIssuer \/ IsName
        r == InfoFields(StartRead, f, g.file,
                        IsEndDate, IsHash, IsIssuer, IsName)
    IN IF g.err # "" THEN FatalRead(StartRead, g.err)
       ELSE ExitRead(IF ~run THEN InfoFull(r, f, g.file) ELSE r, 0)

\* main of easycert.go with -info.
MainInfo(f, args, IsCert, IsRequest, IsKey, IsFullInfo, info) ==
  IF Len(args) = 0 THEN FatalRead(StartRead, MsgMissingArg)
  ELSE
    LET p == MainFileName(args[1], TRUE, IsCert, IsRequest, IsKey)
        isExit == info.EndDate \/ info.Hash \/ info.Issuer \/ info.Name
        r == InfoFields(StartRead, f, p,
                        info.EndDate, info.Hash, info.Issuer, info.Name)
    IN IF IsFullInfo THEN ExitRead(InfoFull(StartRead, f, p), 0)
       ELSE IF ~isExit THEN FatalRead(r, MsgInfoFlag)
       ELSE ExitRead(r, 0)

\* main of easycert.go with -cat (InfoCert, InfoRequest, InfoKey).
MainCat(f, args, IsCert, IsRequest, IsKey) ==
  IF Len(args) = 0 THEN FatalRead(StartRead, MsgMissingArg)
  ELSE
    LET p == MainFileName(args[1], FALSE, IsCert, IsRequest, IsKey)
    IN IF IsCert THEN ExitRead(opensslIn(StartRead, f, p, <<"x509">>), 0)
       ELSE IF IsRequest THEN ExitRead(opensslIn(StartRead, f, p, <<"req">>), 0)
       ELSE IF IsKey THEN ExitRead(opensslIn(StartRead, f, p, <<"rsa">>), 0)
       ELSE FatalRead(StartRead, MsgCatFlag)

\* CheckCert verifies against the certificate of the authority.
CheckCertFile(r, f, p) ==
  IF Stat(f, JoinPath("certs", Chars[NAME_CA], EXT_CERT))
  THEN opensslIn(r, f, p, <<"verify">>)
  ELSE [r EXCEPT !.exit = 1, !.msg = MsgTool, !.tool = @ + 1, !.file = p]

\* main of easycert.go with -chk (CheckCert, CheckRequest, CheckKey).
MainChk(f, args, IsCert, IsRequest, IsKey) ==
  IF Len(args) = 0 THEN FatalRead(StartRead, MsgMissingArg)
  ELSE
    LET p == MainFileName(args[1], FALSE, IsCert, IsRequest, IsKey)
    IN IF IsCert THEN ExitRead(CheckCertFile(StartRead, f, p), 0)
       ELSE IF IsRequest
       THEN ExitRead(opensslIn(StartRead, f, p, <<"req", "verify">>), 0)
       ELSE IF IsKey
       THEN ExitRead(opensslIn(StartRead, f, p, <<"rsa", "check">>), 0)
       ELSE FatalRead(StartRead, MsgChkFlag)

\* ------------------------------------------- lang: cmd_lang.go, easycert.go

MsgGenExists == "File already exists"
MsgCAParam == "Missing required parameter in flag -ca-cert"
MsgServerParam == "Missing required parameter in flag -server-cert"
MsgRead == "no such file or directory"

\* The bytes of the files: a certificate holds its serial number, the
\* number of its key and its days of validity after a header of dashes.
CertBytes(c) ==
  [i \in 1..16 |-> 45] \o <<c.serial, c.key, c.days % 256, c.days \div 256>>
KeyBytes(k) == <<45, k, 255>>
ExternBytes == <<45, 10>>

\* ioutil.ReadFile(p), of a file that os.Stat finds.
ReadFile(f, p) ==
  IF p.dir = "" THEN ExternBytes
  ELSE LET n == CHOOSE m \in AllNames : Chars[m] = p.base
       IN IF p.ext = EXT_CERT THEN CertBytes(f.crt[n]) ELSE KeyBytes(f.key[n])

\* GoBlock.String: one piece "v, " for each byte; every 18 bytes a new
\* line starts, and the space before it and the last one are removed.
GoBlockPiece(b, i) ==
  LET wrap == i - 1 # 0 /\ (i - 1) % 18 = 0
      final == i = Len(b) \/ i % 18 = 0
  IN (IF wrap THEN <<"\n", "\t", "\t">> ELSE <<>>)
       \o Itoa(b[i]) \o (IF final THEN <<",">> ELSE <<",", " ">>)
GoBlockString(b) ==
  <<"[", "]", "b", "y", "t", "e", "{", "\n", "\t", "\t">>
    \o Join([i \in 1..Len(b) |-> GoBlockPiece(b, i)], <<>>)
    \o <<"\n", "\t", "}">>

\* GoBlock.String called on b: s[len(s)-1] is out of range for no bytes,
\* and the run-time panic ends the process with status 2.
MsgPanic == "index out of range"
GoBlockCall(b) ==
  IF Len(b) = 0 THEN [exit |-> 2, msg |-> MsgPanic, text |-> <<>>]
  ELSE [exit |-> 0, msg |-> "", text |-> GoBlockString(b)]

\* The templates TMPL_SERVER_GO and TMPL_CLIENT_GO, executed: the text
\* around the blocks is fixed, the client's has the block of the CA only.
ServerGo(ca, cert, key) ==
  [there |-> TRUE, CACert |-> GoBlockString(ca), Cert |-> GoBlockString(cert),
   Key |-> GoBlockString(key)]
ClientGo(ca) ==
  [there |-> TRUE, CACert |-> GoBlockString(ca), Cert |-> <<>>, Key |-> <<>>]
\* os.OpenFile(..., O_CREATE|O_TRUNC|O_WRONLY) leaves an empty file.
EmptyGen == [there |-> TRUE, CACert |-> <<>>, Cert |-> <<>>, Key |-> <<>>]

\* A process of lang: the run record and the working directory.
StartLang(w, failAt) ==
  [exit |-> Running, msg |-> "", tool |-> 0, failAt |-> failAt, cwd |-> w]
FatalLang(r, msg) ==
  IF r.exit # Running THEN r ELSE [r EXCEPT !.exit = 1, !.msg = msg]
ExitLang(r, code) ==
  IF r.exit # Running THEN r ELSE [r EXCEPT !.exit = code]
\* A call of the tool that reads files that are there.
ToolLang(r) ==
  IF r.exit # Running THEN r
  ELSE IF r.failAt = r.tool + 1
  THEN [r EXCEPT !.exit = 1, !.msg = MsgTool, !.tool = @ + 1]
  ELSE [r EXCEPT !.tool = @ + 1]
WriteSrv(r, g) == IF r.exit # Running THEN r ELSE [r EXCEPT !.cwd.srv = g]
WriteClt(r, g) == IF r.exit # Running THEN r ELSE [r EXCEPT !.cwd.clt = g]

\* The path of the certificate of the authority, from -ca.
CAPath(CACert) ==
  IF CACert[1] # "." /\ CACert[1] # PathSeparator
  THEN JoinPath("certs", CACert, EXT_CERT)
  ELSE AsPath(CACert)

\* os.Stat of a generated file finds it.
GenExistsNever(g) == FALSE
GenExists(g) == g.there

\* Cert2Lang of cmd_lang.go.
Cert2LangCmd(r0, f, CACert, ServerCert, IsClient) ==
  LET ca == CAPath(CACert)
      certFile == JoinPath("certs", ServerCert, EXT_CERT)
      keyFile == JoinPath("private", ServerCert, EXT_KEY)
      r1 == ToolLang(r0)
      r2 == IF ~Stat(f, ca) THEN FatalLang(r1, MsgRead) ELSE r1
      r3 == IF ServerCert = <<>> THEN r2
            ELSE IF ~Stat(f, certFile) \/ ~Stat(f, keyFile)
            THEN FatalLang(r2, MsgRead)
            ELSE WriteSrv(ToolLang(r2),
                          ServerGo(ReadFile(f, ca), ReadFile(f, certFile),
                                   ReadFile(f, keyFile)))
  IN IF IsClient /\ r3.exit = Running
     THEN WriteClt(r3, ClientGo(ReadFile(f, ca)))
     ELSE r3

\* runLang of cmd_lang.go.
runLang(f, w, CACert, ServerCert, IsClient, IsGo, failAt) ==
  LET r0 == StartLang(w, failAt)
  IN IF CACert = <<>> THEN FatalLang(r0, MsgCAParam)
     ELSE IF ~IsGo THEN [ExitLang(r0, 2) EXCEPT !.msg = MsgUsage]
     ELSE IF ServerCert # <<>> /\ GenExists(w.srv)
     THEN FatalLang(r0, MsgGenExists)
     ELSE IF IsClient /\ GenExists(w.clt) THEN FatalLang(r0, MsgGenExists)
     ELSE ExitLang(Cert2LangCmd(r0, f, CACert, ServerCert, IsClient), 0)

\* Cert2Lang of easycert.go: the server's file is opened before the tool
\* is asked for the end date.
Cert2Lang(r0, f, CACert, ServerCert) ==
  LET ca == CAPath(CACert)
      certFile == JoinPath("certs", ServerCert, EXT_CERT)
      keyFile == JoinPath("private", ServerCert, EXT_KEY)
      r1 == IF ~Stat(f, ca) \/ ~Stat(f, certFile) \/ ~Stat(f, keyFile)
            THEN FatalLang(r0, MsgRead) ELSE r0
      r2 == WriteSrv(ToolLang(r1), EmptyGen)
      r3 == ToolLang(r2)
  IN IF r3.exit # Running THEN r3
     ELSE WriteClt(WriteSrv(r3, ServerGo(ReadFile(f, ca),
                                         ReadFile(f, certFile),
                                         ReadFile(f, keyFile))),
                   ClientGo(ReadFile(f, ca)))

\* main of easycert.go with -lang-go.
MainLang(f, w, CACert, ServerCert, failAt) ==
  LET r0 == StartLang(w, failAt)
  IN IF GenExists(w.srv) \/ GenExists(w.clt) THEN FatalLang(r0, MsgGenExists)
     ELSE IF ServerCert = <<>> THEN FatalLang(r0, MsgServerParam)
     ELSE IF CACert = <<>> THEN FatalLang(r0, MsgCAParam)
     ELSE ExitLang(Cert2Lang(r0, f, CACert, ServerCert), 0)

\* ------------------------- cmd_req.go, cmd_sign.go: the steps of a process

\* The first step of runReq and of SignReq, for process p: os.Stat of the
\* file that is to be written, and log.Fatalf when it is there.  SignReq
\* goes on to choose the configuration by os.Stat of File.SrvConfig.
StatStepLocked(pr, f, p) ==
  LET r == pr.run[p]
      held == \E q \in Procs \ {p} :
                /\ pr.run[q].pc \in {"checked", "tooled"}
                /\ pr.run[q].cmd = r.cmd
                /\ pr.run[q].name = r.name
  IN IF r.cmd = "req"
     THEN IF f.csr[r.name].present \/ held
          THEN [r EXCEPT !.pc = "done", !.exit = 1, !.msg = MsgReqExists]
          ELSE [r EXCEPT !.pc = "checked"]
     ELSE IF f.crt[r.name].present \/ held
          THEN [r EXCEPT !.pc = "done", !.exit = 1, !.msg = MsgCertExists]
          ELSE [r EXCEPT !.pc = "checked", !.config = SignConfig(f, r.name)]
StatStep(pr, f, p) ==
  LET r == pr.run[p]
  IN IF r.cmd = "req"
     THEN IF f.csr[r.name].present
          THEN [r EXCEPT !.pc = "done", !.exit = 1, !.msg = MsgReqExists]
          ELSE [r EXCEPT !.pc = "checked"]
     ELSE IF f.crt[r.name].present
          THEN [r EXCEPT !.pc = "done", !.exit = 1, !.msg = MsgCertExists]
          ELSE [r EXCEPT !.pc = "checked", !.config = SignConfig(f, r.name)]

\* The second step: the call of openssl.  openssl req cannot write a key
\* file that is there with mode 0400, unless the user is root.
ToolStep(pr, f, p) ==
  LET r == pr.run[p]
      keyLocked == r.name \in pr.keyRO /\ ~pr.root
      s0 == Start(f, YearsAfterInit, IF keyLocked THEN 1 ELSE 0)
  IN IF r.cmd = "req" THEN OpensslReq(s0, r.name, "main")
     ELSE OpensslCA(Start(f, YearsAfterInit, 0), r.name, r.config,
                    DaysPerYear * YearsAfterInit, FALSE)

\* The last step of SignReq: os.Remove of the request and, for a server,
\* of its configuration.
SignCleanup(f, r) ==
  LET s1 == RemoveRequest(Start(f, YearsAfterInit, 0), r.name)
  IN IF r.config = "srv" THEN [s1.fs EXCEPT !.cfg[r.name] = FALSE] ELSE s1.fs

\* ------------------------------- cmd_sign.go, cmd_ca.go: failing system calls

\* SignReq of cmd_sign.go where os.Remove may fail (rmFails): the run, and
\* the errors that log.Print has printed.
SignReqEnv(st, name, rmFails) ==
  IF ~rmFails \/ st.exit # Running \/ st.fs.crt[name].present
  THEN [st |-> SignReqCmd(st, name), log |-> <<>>]
  ELSE LET k == SignConfig(st.fs, name)
           s1 == OpensslCA(st, name, k, DaysPerYear * st.years, FALSE)
       IN IF s1.exit # Running THEN [st |-> s1, log |-> <<>>]
          ELSE [st |-> s1,
                log |-> IF k = "srv" THEN <<MsgRemove, MsgRemove>>
                        ELSE <<MsgRemove>>]

\* runCA where os.Remove and os.Chmod may fail.
runCAEnv(st, rmFails, chmodFails) ==
  LET s0 == IF st.fs.crt[NAME_CA].present THEN Fatal(st, MsgCAExists) ELSE st
      s1 == CreateSerial(CreateIndex(Mkdir(Mkdir(s0, "newcerts"), "crl")))
      s2 == OpensslReq(s1, NAME_CA, "main")
      s3 == OpensslCA(s2, NAME_CA, "main", DaysPerYear * st.years, TRUE)
      s4 == IF rmFails THEN s3 ELSE RemoveRequest(s3, NAME_CA)
  IN [st |-> s4,
      log |-> IF s3.exit # Running THEN <<>>
              ELSE (IF rmFails THEN <<MsgRemove>> ELSE <<>>)
                   \o (IF chmodFails THEN <<MsgChmod>> ELSE <<>>)]

\* --------------------- cmd_init.go, cmd_ca.go, cmd_req.go: modes of files

\* openssl req opens the key file to write: a new file gets mode 0600, a
\* file that is there keeps its mode, and one of mode 0400 cannot be
\* opened unless the user is root.
KeyLocked(md, name) == md.key[name] = "0400" /\ ~md.root
KeyWritten(md, name) ==
  IF md.key[name] = "none" THEN [md EXCEPT !.key[name] = "0600"] ELSE md
LockTool(st, locked) ==
  IF locked /\ st.exit = Running THEN [st EXCEPT !.failAt = st.tool + 1]
  ELSE st

\* os.Chmod(File.Key, 0400), whose error is printed only.
ChmodKeySkip(md, name, chmodFails) == md
ChmodKey(md, name, chmodFails) ==
  IF chmodFails THEN md ELSE [md EXCEPT !.key[name] = "0400"]

\* runInit of cmd_init.go with the modes: the directories are made with
\* 0755, and an error of os.Chmod(Dir.Key, 0710) is fatal.
runInitMode(st, md, tmplOk, chmodFails) ==
  LET s1 == Mkdir(Mkdir(Mkdir(st, "root"), "certs"), "private")
      made == "private" \in s1.fs.dirs /\ "private" \notin st.fs.dirs
      m1 == IF made THEN [md EXCEPT !.private = "0755"] ELSE md
      s2 == IF chmodFails THEN Fatal(s1, MsgChmod) ELSE s1
      m2 == IF s2.exit = Running THEN [m1 EXCEPT !.private = "0710"] ELSE m1
  IN [st |-> ConfigFromTemplate(s2, tmplOk, TRUE), mode |-> m2, log |-> <<>>]

\* runCA of cmd_ca.go with the modes.
runCAMode(st, md, rmFails, chmodFails) ==
  LET s0 == IF st.fs.crt[NAME_CA].present THEN Fatal(st, MsgCAExists) ELSE st
      s1 == CreateSerial(CreateIndex(Mkdir(Mkdir(s0, "newcerts"), "crl")))
      s2 == OpensslReq(LockTool(s1, KeyLocked(md, NAME_CA)), NAME_CA, "main")
      m2 == IF s2.exit = Running THEN KeyWritten(md, NAME_CA) ELSE md
      s3 == OpensslCA(s2, NAME_CA, "main", DaysPerYear * st.years, TRUE)
      s4 == IF rmFails THEN s3 ELSE RemoveRequest(s3, NAME_CA)
      m4 == IF s3.exit = Running THEN ChmodKey(m2, NAME_CA, chmodFails) ELSE m2
  IN [st |-> s4, mode |-> m4,
      log |-> IF s3.exit # Running THEN <<>>
              ELSE (IF rmFails THEN <<MsgRemove>> ELSE <<>>)
                   \o (IF chmodFails THEN <<MsgChmod>> ELSE <<>>)]

\* runReq of cmd_req.go with the modes.
runReqMode(st, md, name, host, isSign, rmFails, chmodFails) ==
  LET s1 == IF st.fs.csr[name].present THEN Fatal(st, MsgReqExists) ELSE st
      s2 == IF host THEN serverConfig(s1, name) ELSE s1
      s3 == OpensslReq(LockTool(s2, KeyLocked(md, name)), name,
                       IF host THEN "srv" ELSE "main")
      m3 == IF s3.exit = Running
            THEN ChmodKey(KeyWritten(md, name), name, chmodFails) ELSE md
      log == IF s3.exit = Running /\ chmodFails THEN <<MsgChmod>> ELSE <<>>
      r == SignReqEnv(s3, name, rmFails)
  IN IF isSign THEN [st |-> r.st, mode |-> m3, log |-> log \o r.log]
     ELSE [st |-> s3, mode |-> m3, log |-> log]

\* ------------------------- unnamed/part_002, part_004: go.mkcert, generate
\* The generator of self-signed certificates: go.mkcert (part_002) and the
\* first easycert (part_004), which names the flag -sys instead of -root
\* and checks the user before it looks for openssl.

MsgNoOpenSSL == "OpenSSL is not installed"
MsgRoot == "You must be root"
MsgRootKey == "You must be root to access to the key file"
MsgFileExists == "File already exists"
MsgConfig == "Configuration file not found"

DirSysCerts == "/etc/ssl/certs"
DirSysPrivate == "/etc/ssl/private"
TempDir == "/tmp"
WorkDir == "."
DefaultFile == "cert-snakeoil"
FileNames == {DefaultFile}
OtherFile == "x"
CertVariants == {"mkcert", "generate"}
CertFails == {"none", "lookpath", "config", "tool"}

\* A path is a directory, the value of -file and what was added to it.
CertPath(dir, base, ext) == [dir |-> dir, base |-> base, ext |-> ext]

CertPaths ==
  { CertPath(d[1], n, d[2]) :
      d \in {<<DirSysCerts, ".pem">>, <<DirSysPrivate, ".key">>,
             <<TempDir, ".pem">>, <<TempDir, ".key">>,
             <<WorkDir, "">>, <<WorkDir, ".go">>},
      n \in FileNames \cup {OtherFile} }

NoCertFiles == [p \in CertPaths |-> FALSE]

\* certFile, keyFile and *fFile as main sets them before the checks.
certFile(a) == CertPath(IF a.root THEN DirSysCerts ELSE TempDir, a.file, ".pem")

keyFile(a) == CertPath(IF a.root THEN DirSysPrivate ELSE TempDir, a.file, ".key")

fFile(a) == CertPath(WorkDir, a.file, IF ~a.root /\ a.langGo THEN ".go" ELSE "")

\* if !*fOverwrite { os.Stat(certFile) ... os.Stat(keyFile) ...
\* if !*fRoot { os.Stat(*fFile) } }: TRUE when one of the calls to
\* log.Fatalf is made.
CertExistsOmitOut(files, a) ==
  /\ ~a.overwrite
  /\ files[certFile(a)] \/ files[keyFile(a)]

CertExists(files, a) ==
  /\ ~a.overwrite
  /\ \/ files[certFile(a)]
     \/ files[keyFile(a)]
     \/ ~a.root /\ files[fFile(a)]

StartCert(files) == [files |-> files, exit |-> Running, msg |-> "", tool |-> 0]

FatalCert(r, msg) == [r EXCEPT !.exit = 1, !.msg = msg]

ExitCert(r, code) == [r EXCEPT !.exit = code]

\* run(cmdPath, args...): os.Exit(1) when openssl fails.
ToolCert(r, fails) ==
  IF fails THEN [r EXCEPT !.exit = 1, !.msg = MsgTool, !.tool = @ + 1]
  ELSE [r EXCEPT !.tool = @ + 1]

\* usage() for flags that name no mode or contradict each other; the
\* modes that read (-hash; -chk, -p, -cert) count as a mode of go.mkcert
\* and end the first easycert before its test.
UsageCert(v, a) ==
  \/ ~a.root /\ ~a.langGo /\ ~a.debug /\ ~(v = "mkcert" /\ a.read)
  \/ a.debug /\ (a.root \/ a.langGo)

\* From "File names for the certificate" to the end of main.
GenerateCert(r0, a, fail) ==
  IF CertExists(r0.files, a) THEN FatalCert(r0, MsgFileExists)
  ELSE IF fail = "config" THEN FatalCert(r0, MsgConfig)
  ELSE
    LET r1 == ToolCert(r0, fail = "tool")
        made == [r1 EXCEPT !.files[keyFile(a)] = TRUE,
                           !.files[certFile(a)] = TRUE]
        goFile == [made EXCEPT !.files[certFile(a)] = FALSE,
                               !.files[keyFile(a)] = FALSE,
                               !.files[fFile(a)] = TRUE]
    IN  IF fail = "tool" THEN r1
        ELSE IF a.root \/ a.debug THEN ExitCert(made, 0)
        ELSE ExitCert(goFile, 0)

\* main of go.mkcert (part_002).
MainMkcert(files, a, uid0, fail) ==
  LET r0 == StartCert(files)
  IN  IF UsageCert("mkcert", a) THEN ExitCert(r0, 2)
      ELSE IF fail = "lookpath" THEN FatalCert(r0, MsgNoOpenSSL)
      ELSE IF a.read
        THEN LET r1 == ToolCert(r0, fail = "tool")
             IN  IF r1.exit = Running THEN ExitCert(r1, 0) ELSE r1
      ELSE IF a.root /\ ~uid0 THEN FatalCert(r0, MsgRoot)
      ELSE GenerateCert(r0, a, fail)

\* main of the first easycert (part_004); -key is taken with a file
\* argument, keyBad says that os.Stat of it failed.
MainGenerate(files, a, uid0, fail) ==
  LET r0 == StartCert(files)
  IN  IF a.root /\ ~uid0 THEN FatalCert(r0, MsgRoot)
      ELSE IF a.keyBad /\ ~uid0 THEN FatalCert(r0, MsgRootKey)
      ELSE IF fail = "lookpath" THEN FatalCert(r0, MsgNoOpenSSL)
      ELSE IF a.read
        THEN LET r1 == ToolCert(r0, fail = "tool")
             IN  IF r1.exit = Running THEN ExitCert(r1, 0) ELSE r1
      ELSE IF UsageCert("generate", a) THEN ExitCert(r0, 2)
      ELSE GenerateCert(r0, a, fail)

\* ------------------------------------------------------------ the machine

Init ==
  /\ variant \in Variants
  /\ fs = EmptyFS
  /\ last = NoLast
  /\ invocation = 0
  /\ RSASize = DefaultRSASize
  /\ rsaErr = ""
  /\ rsaArg = DefaultRSASize
  /\ Host = NoHost
  /\ hostErr = ""
  /\ hostArg = <<>>
  /\ argv = NoArgv
  /\ stdout = <<>>
  /\ toolFile = NoPath
  /\ cwd = NoFiles
  /\ procs = NoProcs
  /\ mode = NoMode

\* The process has ended: its effects and its report become visible.
\* envFail tells whether the environment failed one of its openssl calls.
Report(st, cmd, name, yearsArg) ==
  /\ fs' = st.fs
  /\ last' = [cmd |-> cmd, name |-> name, exit |-> st.exit, msg |-> st.msg,
              tool |-> st.tool, config |-> st.config, yearsArg |-> yearsArg,
              envFail |-> (st.failAt # 0 /\ st.tool >= st.failAt)]
  /\ invocation' = 1 - invocation
  /\ UNCHANGED <<variant, rsaVars, ioVars>>

Finish(st, cmd, name, yearsArg) ==
  /\ Report(st, cmd, name, yearsArg)
  /\ UNCHANGED hostVars

YearsArgs == {NoYears} \cup (1..MaxYears)
NameArgs == UserNames \cup {NoName}
KeysLeft == fs.nkeys < MaxKeys
SerialsLeft == fs.serial <= MaxSerial

\* easycert -setup [-years N]
FlagsSetup ==
  /\ variant = "flags"
  /\ \E y \in YearsArgs, tmplOk \in BOOLEAN :
       Finish(MainFlags(fs, TRUE, FALSE, FALSE, FALSE, NoName, y, tmplOk, 0),
              "setup", NoName, y)

\* easycert -setup -ca [-years N]
FlagsSetupCA ==
  /\ variant = "flags"
  /\ KeysLeft /\ SerialsLeft
  /\ \E y \in YearsArgs, tmplOk \in BOOLEAN, failAt \in FailPoints :
       Finish(MainFlags(fs, TRUE, TRUE, FALSE, FALSE, NoName, y, tmplOk, failAt),
              "setupca", NAME_CA, y)

\* easycert -ca [-years N]
FlagsCA ==
  /\ variant = "flags"
  /\ KeysLeft /\ SerialsLeft
  /\ \E y \in YearsArgs, failAt \in FailPoints :
       Finish(MainFlags(fs, FALSE, TRUE, FALSE, FALSE, NoName, y, TRUE, failAt),
              "ca", NAME_CA, y)

\* easycert -new-req [-sign] [-years N] NAME
FlagsNewReq ==
  /\ variant = "flags"
  /\ KeysLeft /\ SerialsLeft
  /\ \E n \in NameArgs, sign \in BOOLEAN, y \in YearsArgs, failAt \in FailPoints :
       Finish(MainFlags(fs, FALSE, FALSE, TRUE, sign, n, y, TRUE, failAt),
              IF sign THEN "reqsign" ELSE "req", n, y)

\* easycert -sign [-years N] NAME
FlagsSign ==
  /\ variant = "flags"
  /\ SerialsLeft
  /\ \E n \in NameArgs, y \in YearsArgs, failAt \in FailPoints :
       Finish(MainFlags(fs, FALSE, FALSE, FALSE, TRUE, n, y, TRUE, failAt),
              "sign", n, y)

\* easycert -root-ca [-years N]
RootCA ==
  /\ variant = "rootca"
  /\ KeysLeft /\ SerialsLeft
  /\ \E y \in YearsArgs, tmplOk \in BOOLEAN, failAt \in FailPoints :
       Finish(MainRootCA(fs, TRUE, FALSE, FALSE, NoName, y, tmplOk, failAt),
              "setupca", NAME_CA, y)

\* easycert -req [-sign] [-years N] name
RootReq ==
  /\ variant = "rootca"
  /\ KeysLeft /\ SerialsLeft
  /\ \E n \in NameArgs, sign \in BOOLEAN, y \in YearsArgs, failAt \in FailPoints :
       Finish(MainRootCA(fs, FALSE, TRUE, sign, n, y, TRUE, failAt),
              IF sign THEN "reqsign" ELSE "req", n, y)

\* easycert -sign [-years N] name
RootSign ==
  /\ variant = "rootca"
  /\ SerialsLeft
  /\ \E n \in NameArgs, y \in YearsArgs, failAt \in FailPoints :
       Finish(MainRootCA(fs, FALSE, FALSE, TRUE, n, y, TRUE, failAt),
              "sign", n, y)

\* easycert init
SubInit ==
  /\ variant = "subcmd"
  /\ \E tmplOk \in BOOLEAN :
       Finish(Dispatch(runInit(Start(fs, YearsAfterInit, 0), tmplOk)),
              "setup", NoName, NoYears)

\* easycert ca [-years N]
SubCA ==
  /\ variant = "subcmd"
  /\ KeysLeft /\ SerialsLeft
  /\ \E y \in YearsArgs, failAt \in FailPoints :
       Finish(Dispatch(runCA(Start(fs, ParsedYears(YearsAfterInit, y), failAt))),
              "ca", NAME_CA, y)

\* easycert req [-sign] [-years N] [-host H] NAME
SubReq ==
  /\ variant = "subcmd"
  /\ KeysLeft /\ SerialsLeft
  /\ \E n \in NameArgs, sign \in BOOLEAN, host \in BOOLEAN,
        y \in YearsArgs, failAt \in FailPoints :
       Finish(Dispatch(runReq(Start(fs, ParsedYears(YearsAfterInit, y), failAt),
                              n, host, sign)),
              IF sign THEN "reqsign" ELSE "req", n, y)

\* easycert sign [-years N] NAME
SubSign ==
  /\ variant = "subcmd"
  /\ SerialsLeft
  /\ \E n \in NameArgs, y \in YearsArgs, failAt \in FailPoints :
       Finish(Dispatch(runSign(Start(fs, ParsedYears(YearsAfterInit, y), failAt), n)),
              "sign", n, y)

Next ==
  \/ FlagsSetup \/ FlagsSetupCA \/ FlagsCA \/ FlagsNewReq \/ FlagsSign
  \/ RootCA \/ RootReq \/ RootSign
  \/ SubInit \/ SubCA \/ SubReq \/ SubSign

Spec == Init /\ [][Next]_vars

TypeOK ==
  /\ variant \in Variants
  /\ fs.dirs \subseteq DirNames
  /\ fs.serial \in 0..(MaxSerial + 1)
  /\ last.exit \in {0, 1, 2}
  /\ invocation \in {0, 1}

\* ----------------------------------------------------- flag parsing only

\* The integers given to -rsa-size: those within RsaSlack of a multiple of
\* 1024, from -1024 up to MaxRsaArg, and 3000.
RsaArgs ==
  {i \in (0 - 1024)..MaxRsaArg :
     \/ i % 1024 <= RsaSlack
     \/ i % 1024 >= 1024 - RsaSlack
     \/ i = 3000}

\* -rsa-size i: the flag package calls RSASize.Set.
RsaSet ==
  \E i \in RsaArgs :
    LET r == rsaSizeFlagSet(RSASize, i)
    IN /\ RSASize' = r.size
       /\ rsaErr' = r.err
       /\ rsaArg' = i
       /\ UNCHANGED <<variant, fs, last, invocation, hostVars, ioVars>>

\* A new process starts with the default size.
RsaNewProcess ==
  /\ RSASize' = DefaultRSASize
  /\ rsaErr' = ""
  /\ rsaArg' = DefaultRSASize
  /\ UNCHANGED <<variant, fs, last, invocation, hostVars, ioVars>>

NextFlags == RsaSet \/ RsaNewProcess

SpecFlags == Init /\ [][NextFlags]_vars

\* ------------------------------------------------------ the -host flag

\* The tokens the values of -host are made of: 10.0.0.1, a.b between
\* spaces, a name without a dot, the empty token, and a dotted string of
\* digits that is no address.
HostTokens ==
  { <<"1", "0", ".", "0", ".", "0", ".", "1">>,
    <<" ", "a", ".", "b", " ">>,
    <<"h", "o", "s", "t">>,
    <<>>,
    <<"2", "5", "6", ".", "0", ".", "0", ".", "1">> }

\* The values of -host with up to k tokens.
HostValues(k) ==
  { Join(ts, <<",">>) :
      ts \in UNION { [1..n -> HostTokens] : n \in 1..k } }

\* -host value: the flag package calls Host.Set; the flag may be repeated
\* while no Set has failed.  Repeated flags are explored in the processes
\* that run before the first req, up to MaxHostTokens entries in all.
HostSet ==
  /\ hostErr = ""
  /\ last.cmd # "req"
  /\ \E value \in HostValues(MaxHostTokens - Len(Host.ip) - Len(Host.dns)) :
       LET r == hostFlagSet(Host, value)
       IN /\ Host' = [ip |-> r.ip, dns |-> r.dns]
          /\ hostErr' = r.err
          /\ hostArg' = value
          /\ UNCHANGED <<variant, fs, last, invocation, rsaVars, ioVars>>

\* A new process starts with an empty Host.
HostNewProcess ==
  /\ Host' = NoHost
  /\ hostErr' = ""
  /\ hostArg' = <<>>
  /\ UNCHANGED <<variant, fs, last, invocation, rsaVars, ioVars>>

\* easycert req -host VALUE a, and easycert -new-req -host VALUE a:
\* a Set that fails makes the flag parser print the error and exit with
\* status 2 before the command runs.
HostReq ==
  /\ variant \in {"flags", "subcmd"}
  /\ KeysLeft
  /\ \E value \in HostValues(MaxHostTokens), n \in {"a"} :
       LET r == hostFlagSet(NoHost, value)
           h == [ip |-> r.ip, dns |-> r.dns]
           s0 == Start(fs, IF variant = "subcmd" THEN YearsAfterInit
                           ELSE DefaultYears, 0)
           st == IF r.err # "" THEN [Exit(s0, 2) EXCEPT !.msg = r.err]
                 ELSE IF variant = "subcmd"
                 THEN Dispatch(runReq(s0, n, hostFlagString(h) # <<>>, FALSE))
                 ELSE MainFlags(fs, FALSE, FALSE, TRUE, FALSE, n, NoYears,
                                TRUE, 0)
       IN /\ Report(st, "req", n, NoYears)
          /\ Host' = h
          /\ hostErr' = r.err
          /\ hostArg' = value

\* The home directory is fresh, or holds the structure that init (and
\* -setup without -ca) makes.
InitHost ==
  /\ variant \in {"flags", "subcmd"}
  /\ fs \in {EmptyFS, runInit(Start(EmptyFS, YearsAfterInit, 0), TRUE).fs}
  /\ last = NoLast
  /\ invocation = 0
  /\ RSASize = DefaultRSASize
  /\ rsaErr = ""
  /\ rsaArg = DefaultRSASize
  /\ Host = NoHost
  /\ hostErr = ""
  /\ hostArg = <<>>
  /\ argv = NoArgv
  /\ stdout = <<>>
  /\ toolFile = NoPath
  /\ cwd = NoFiles
  /\ procs = NoProcs
  /\ mode = NoMode

NextHost == HostSet \/ HostNewProcess \/ HostReq

SpecHost == InitHost /\ [][NextHost]_vars

\* ------------------------------------------------------------------- ls

\* The report of an invocation that invokes no tool and writes no file.
ReadOnlyReport(cmd, name, res) ==
  /\ last' = [cmd |-> cmd, name |-> name, exit |-> res.exit, msg |-> res.msg,
              tool |-> 0, config |-> "none", yearsArg |-> NoYears,
              envFail |-> FALSE]
  /\ stdout' = res.out
  /\ toolFile' = toolFile
  /\ cwd' = cwd
  /\ procs' = procs
  /\ mode' = mode
  /\ invocation' = 1 - invocation
  /\ UNCHANGED <<variant, fs, rsaVars, hostVars>>

\* easycert ls [-cert] [-req] [-key], and easycert -ls [-cert] [-req] [-key]
Ls ==
  /\ variant \in {"flags", "subcmd"}
  /\ \E c \in BOOLEAN, r \in BOOLEAN, k \in BOOLEAN :
       /\ argv' = [cmd |-> "ls", cert |-> c, req |-> r, key |-> k]
       /\ ReadOnlyReport("ls", NoName,
                         IF variant = "subcmd" THEN runLs(fs, c, r, k)
                         ELSE MainList(fs, c, r, k))

\* The file systems that the commands of program v leave: the structure
\* alone or with a certification authority, and for each user name nothing,
\* a request, or a request that has been given to sign.
InitFS == runInit(Start(EmptyFS, YearsAfterInit, 0), TRUE).fs
CAFS == runCA(Start(InitFS, YearsAfterInit, 0)).fs
BaseFS(v) ==
  IF v = "subcmd" THEN {InitFS, CAFS}
  ELSE { MainFlags(EmptyFS, TRUE, ca, FALSE, FALSE, NoName, NoYears, TRUE, 0).fs :
           ca \in BOOLEAN }
UserFiles(v, f, n, k) ==
  IF k = 0 THEN f
  ELSE IF v = "subcmd"
  THEN runReq(Start(f, YearsAfterInit, 0), n, FALSE, k = 2).fs
  ELSE MainFlags(f, FALSE, FALSE, TRUE, k = 2, n, NoYears, TRUE, 0).fs
FileSystems(v) ==
  {EmptyFS} \cup
  { UserFiles(v, UserFiles(v, base, "a", i), "b", j) :
      base \in BaseFS(v), i \in 0..2, j \in 0..2 }

InitLs ==
  /\ variant \in {"flags", "subcmd"}
  /\ fs \in FileSystems(variant)
  /\ last = NoLast
  /\ invocation = 0
  /\ RSASize = DefaultRSASize
  /\ rsaErr = ""
  /\ rsaArg = DefaultRSASize
  /\ Host = NoHost
  /\ hostErr = ""
  /\ hostArg = <<>>
  /\ argv = NoArgv
  /\ stdout = <<>>
  /\ toolFile = NoPath
  /\ cwd = NoFiles
  /\ procs = NoProcs
  /\ mode = NoMode

NextLs == Ls

SpecLs == InitLs /\ [][NextLs]_vars

\* ------------------------------------------------- failing system calls

\* The report of an invocation together with what log.Print has printed.
ReportLog(st, cmd, name, a, log) ==
  /\ fs' = st.fs
  /\ last' = [cmd |-> cmd, name |-> name, exit |-> st.exit, msg |-> st.msg,
              tool |-> st.tool, config |-> st.config, yearsArg |-> NoYears,
              envFail |-> FALSE]
  /\ argv' = a
  /\ stdout' = log
  /\ toolFile' = toolFile
  /\ cwd' = cwd
  /\ procs' = procs
  /\ mode' = mode
  /\ invocation' = 1 - invocation
  /\ UNCHANGED <<variant, rsaVars, hostVars>>

\* easycert sign NAME, where the request or NAME.cfg may be impossible to
\* remove.
SignFault ==
  /\ variant = "subcmd"
  /\ \E n \in UserNames, rmFails \in BOOLEAN :
       LET r == SignReqEnv(Start(fs, YearsAfterInit, 0), n, rmFails)
       IN ReportLog(Dispatch(r.st), "sign", n,
                    [cmd |-> "sign", rmFails |-> rmFails, chmodFails |-> FALSE],
                    r.log)

\* easycert ca, where ca.csr may be impossible to remove and the mode of
\* ca.key impossible to change.
CAFault ==
  /\ variant = "subcmd"
  /\ \E rmFails \in BOOLEAN, chmodFails \in BOOLEAN :
       LET r == runCAEnv(Start(fs, YearsAfterInit, 0), rmFails, chmodFails)
       IN ReportLog(Dispatch(r.st), "ca", NAME_CA,
                    [cmd |-> "ca", rmFails |-> rmFails,
                     chmodFails |-> chmodFails],
                    r.log)

InitFaults ==
  /\ variant = "subcmd"
  /\ fs \in FileSystems(variant)
  /\ last = NoLast
  /\ invocation = 0
  /\ RSASize = DefaultRSASize
  /\ rsaErr = ""
  /\ rsaArg = DefaultRSASize
  /\ Host = NoHost
  /\ hostErr = ""
  /\ hostArg = <<>>
  /\ argv = NoArgv
  /\ stdout = <<>>
  /\ toolFile = NoPath
  /\ cwd = NoFiles
  /\ procs = NoProcs
  /\ mode = NoMode

NextFaults == SignFault \/ CAFault

SpecFaults == InitFaults /\ [][NextFaults]_vars

\* ------------------------------------------------------ cat, chk, info

\* The FILE arguments: names, paths of files that are there, and a path
\* of no file; and the argument lists, of one argument or none.
FileArgs ==
  {Chars["a"], Chars[NAME_CA]} \cup ExternFiles \cup {<<".", "/", "y">>}
ArgLists == {<<>>} \cup { <<v>> : v \in FileArgs }

\* The flags of info, as they can follow each other on a command line.
InfoFlagNames == {"end-date", "hash", "issuer", "name"}
InfoFlagLists ==
  { g \in UNION { [1..k -> InfoFlagNames] : k \in 0..Cardinality(InfoFlagNames) } :
      \A i, j \in 1..Len(g) : g[i] = g[j] => i = j }

\* flag.Parse: a boolean flag is set when it is given, wherever it stands.
IsGiven(given, flag) == \E i \in 1..Len(given) : given[i] = flag

\* The report of an invocation that reads a file with the tool.
ReadReport(cmd, res) ==
  /\ last' = [cmd |-> cmd, name |-> NoName, exit |-> res.exit,
              msg |-> res.msg, tool |-> res.tool, config |-> "none",
              yearsArg |-> NoYears, envFail |-> FALSE]
  /\ stdout' = res.out
  /\ toolFile' = res.file
  /\ cwd' = cwd
  /\ procs' = procs
  /\ mode' = mode
  /\ invocation' = 1 - invocation
  /\ UNCHANGED <<variant, fs, rsaVars, hostVars>>

\* easycert -cat [-cert] [-req] [-key] FILE, and the same with -chk
CatChk ==
  /\ variant = "flags"
  /\ \E cmd \in {"cat", "chk"}, args \in ArgLists,
        c \in BOOLEAN, r \in BOOLEAN, k \in BOOLEAN :
       /\ argv' = [cmd |-> cmd, args |-> args, cert |-> c, req |-> r,
                   key |-> k, full |-> FALSE, given |-> <<>>]
       /\ ReadReport(cmd, IF cmd = "cat" THEN MainCat(fs, args, c, r, k)
                          ELSE MainChk(fs, args, c, r, k))

\* easycert -info [-req] [-full] [-end-date] [-hash] [-issuer] [-name] FILE
FlagsInfo ==
  /\ variant = "flags"
  /\ \E args \in ArgLists, r \in BOOLEAN, full \in BOOLEAN,
        given \in InfoFlagLists :
       /\ (r \/ full) => given = <<>>
       /\ argv' = [cmd |-> "info", args |-> args, cert |-> FALSE, req |-> r,
                   key |-> FALSE, full |-> full, given |-> given]
       /\ ReadReport("info",
            MainInfo(fs, args, FALSE, r, FALSE, full,
                     [EndDate |-> IsGiven(given, "end-date"),
                      Hash |-> IsGiven(given, "hash"),
                      Issuer |-> IsGiven(given, "issuer"),
                      Name |-> IsGiven(given, "name")]))

\* easycert info [-end-date] [-hash] [-issuer] [-name] FILE
SubInfo ==
  /\ variant = "subcmd"
  /\ \E args \in ArgLists, given \in InfoFlagLists :
       /\ argv' = [cmd |-> "info", args |-> args, cert |-> FALSE,
                   req |-> FALSE, key |-> FALSE, full |-> FALSE,
                   given |-> given]
       /\ ReadReport("info",
            runInfo(fs, args,
                    IsGiven(given, "end-date"), IsGiven(given, "hash"),
                    IsGiven(given, "issuer"), IsGiven(given, "name")))

\* The file systems to read from: those of FileSystems without files of b.
ReadFileSystems(v) ==
  {EmptyFS} \cup { UserFiles(v, base, "a", i) : base \in BaseFS(v), i \in 0..2 }

InitRead ==
  /\ variant \in {"flags", "subcmd"}
  /\ fs \in ReadFileSystems(variant)
  /\ last = NoLast
  /\ invocation = 0
  /\ RSASize = DefaultRSASize
  /\ rsaErr = ""
  /\ rsaArg = DefaultRSASize
  /\ Host = NoHost
  /\ hostErr = ""
  /\ hostArg = <<>>
  /\ argv = NoArgv
  /\ stdout = <<>>
  /\ toolFile = NoPath
  /\ cwd = NoFiles
  /\ procs = NoProcs
  /\ mode = NoMode

NextRead == CatChk \/ FlagsInfo \/ SubInfo

SpecRead == InitRead /\ [][NextRead]_vars

\* ------------------------------------------------------------------ lang

\* A generated file of an earlier day.
OldGen ==
  [there |-> TRUE, CACert |-> <<"o", "l", "d">>, Cert |-> <<>>, Key |-> <<>>]

\* easycert lang [-ca file] [-server name] [-client] [-go], and
\* easycert -lang-go [-ca-cert file] -server-cert name
Lang ==
  /\ \E ca \in {<<>>, Chars[NAME_CA], <<".", "/", "x">>},
        server \in {<<>>, Chars["a"], Chars["b"]},
        client \in BOOLEAN, go \in BOOLEAN, failAt \in FailPoints :
       /\ variant = "flags" => ~client /\ go
       /\ argv' = [cmd |-> "lang", ca |-> ca, server |-> server,
                   client |-> client, go |-> go]
       /\ LET r == IF variant = "subcmd"
                   THEN runLang(fs, cwd, ca, server, client, go, failAt)
                   ELSE MainLang(fs, cwd, ca, server, failAt)
          IN /\ last' = [cmd |-> "lang", name |-> NoName, exit |-> r.exit,
                         msg |-> r.msg, tool |-> r.tool, config |-> "none",
                         yearsArg |-> NoYears,
                         envFail |-> (r.exit = 1 /\ r.msg = MsgTool)]
             /\ cwd' = r.cwd
  /\ invocation' = 1 - invocation
  /\ UNCHANGED <<variant, fs, rsaVars, hostVars, stdout, toolFile, procs, mode>>

\* The user removes a generated file.
RemoveGen ==
  /\ \E x \in {"srv", "clt"} :
       /\ cwd[x].there
       /\ cwd' = [cwd EXCEPT ![x] = NoGen]
  /\ UNCHANGED <<variant, fs, last, invocation, rsaVars, hostVars,
                 argv, stdout, toolFile, procs, mode>>

InitLang ==
  /\ variant \in {"flags", "subcmd"}
  /\ fs \in ReadFileSystems(variant)
  /\ last = NoLast
  /\ invocation = 0
  /\ RSASize = DefaultRSASize
  /\ rsaErr = ""
  /\ rsaArg = DefaultRSASize
  /\ Host = NoHost
  /\ hostErr = ""
  /\ hostArg = <<>>
  /\ argv = NoArgv
  /\ stdout = <<>>
  /\ toolFile = NoPath
  /\ cwd \in [{"srv", "clt"} -> {NoGen, OldGen}]
  /\ procs = NoProcs
  /\ mode = NoMode

NextLang == Lang \/ RemoveGen

SpecLang == InitLang /\ [][NextLang]_vars

\* ------------------------------------------- invocations at the same time

raceRest ==
  <<variant, last, invocation, rsaVars, hostVars, argv, stdout, toolFile, cwd,
    mode>>

\* A process starts: easycert req NAME, or easycert sign NAME.
RaceBegin ==
  /\ procs.runs < MaxRuns
  /\ \E p \in Procs, cmd \in {"req", "sign"}, n \in UserNames :
       /\ procs.run[p].pc \in {"idle", "done"}
       /\ procs' = [procs EXCEPT !.run[p] = [IdleProc EXCEPT !.pc = "start",
                                                             !.cmd = cmd,
                                                             !.name = n],
                                 !.runs = @ + 1]
  /\ UNCHANGED <<fs, raceRest>>

\* A process checks that the file it is to write is not there.
RaceStat ==
  /\ \E p \in Procs :
       /\ procs.run[p].pc = "start"
       /\ procs' = [procs EXCEPT !.run[p] = StatStep(procs, fs, p)]
  /\ UNCHANGED <<fs, raceRest>>

\* A process calls openssl, which writes its files or fails.
RaceTool ==
  /\ \E p \in Procs :
       /\ procs.run[p].pc = "checked"
       /\ LET r == procs.run[p]
              st == ToolStep(procs, fs, p)
          IN IF st.exit # Running
             THEN /\ procs' = [procs EXCEPT !.run[p].pc = "done",
                                            !.run[p].exit = st.exit,
                                            !.run[p].msg = MsgTool]
                  /\ fs' = fs
             ELSE /\ procs' = [procs EXCEPT
                                 !.run[p].pc = "tooled",
                                 !.run[p].wrote =
                                   IF r.cmd = "req" THEN st.fs.key[r.name]
                                   ELSE st.fs.crt[r.name].serial]
                  /\ fs' = st.fs
  /\ UNCHANGED raceRest

\* A process ends: req makes the key read-only, sign removes the request.
RaceFinish ==
  /\ \E p \in Procs :
       /\ procs.run[p].pc = "tooled"
       /\ LET r == procs.run[p]
          IN IF r.cmd = "req"
             THEN /\ procs' = [procs EXCEPT !.run[p].pc = "done",
                                            !.keyRO = @ \cup {r.name}]
                  /\ fs' = fs
             ELSE /\ procs' = [procs EXCEPT !.run[p].pc = "done"]
                  /\ fs' = SignCleanup(fs, r)
  /\ UNCHANGED raceRest

InitRace ==
  /\ variant = "subcmd"
  /\ fs = CAFS
  /\ last = NoLast
  /\ invocation = 0
  /\ RSASize = DefaultRSASize
  /\ rsaErr = ""
  /\ rsaArg = DefaultRSASize
  /\ Host = NoHost
  /\ hostErr = ""
  /\ hostArg = <<>>
  /\ argv = NoArgv
  /\ stdout = <<>>
  /\ toolFile = NoPath
  /\ cwd = NoFiles
  /\ procs \in { [NoProcs EXCEPT !.root = b] : b \in BOOLEAN }
  /\ mode = NoMode

NextRace == RaceBegin \/ RaceStat \/ RaceTool \/ RaceFinish

SpecRace == InitRace /\ [][NextRace]_vars

\* ------------------------------------------------------ modes of files

\* The report of an invocation with its log, and the modes it leaves.
PermReport(r, cmd, name, a) ==
  /\ fs' = r.st.fs
  /\ mode' = r.mode
  /\ last' = [cmd |-> cmd, name |-> name, exit |-> r.st.exit,
              msg |-> r.st.msg, tool |-> r.st.tool, config |-> r.st.config,
              yearsArg |-> NoYears, envFail |-> FALSE]
  /\ argv' = a
  /\ stdout' = r.log
  /\ invocation' = 1 - invocation
  /\ UNCHANGED <<variant, rsaVars, hostVars, toolFile, cwd, procs>>

Ended(r) == [r EXCEPT !.st = Dispatch(r.st)]

\* easycert init
PermInit ==
  \E tmplOk \in BOOLEAN, chmodFails \in BOOLEAN :
    PermReport(Ended(runInitMode(Start(fs, YearsAfterInit, 0), mode, tmplOk,
                                 chmodFails)),
               "setup", NoName,
               [cmd |-> "setup", sign |-> FALSE, rmFails |-> FALSE,
                chmodFails |-> chmodFails])

\* easycert ca
PermCA ==
  /\ fs.nkeys < MaxPermKeys /\ SerialsLeft
  /\ \E rmFails \in BOOLEAN, chmodFails \in BOOLEAN :
       PermReport(Ended(runCAMode(Start(fs, YearsAfterInit, 0), mode, rmFails,
                                  chmodFails)),
                  "ca", NAME_CA,
                  [cmd |-> "ca", sign |-> FALSE, rmFails |-> rmFails,
                   chmodFails |-> chmodFails])

\* easycert req [-sign] NAME
PermReq ==
  /\ fs.nkeys < MaxPermKeys /\ SerialsLeft
  /\ \E n \in UserNames, sign \in BOOLEAN,
        rmFails \in BOOLEAN, chmodFails \in BOOLEAN :
       /\ ~sign => ~rmFails
       /\ PermReport(Ended(runReqMode(Start(fs, YearsAfterInit, 0), mode, n,
                                      FALSE, sign, rmFails, chmodFails)),
                     IF sign THEN "reqsign" ELSE "req", n,
                     [cmd |-> "req", sign |-> sign, rmFails |-> rmFails,
                      chmodFails |-> chmodFails])

\* easycert sign NAME
PermSign ==
  /\ SerialsLeft
  /\ \E n \in UserNames, rmFails \in BOOLEAN :
       LET r == SignReqEnv(Start(fs, YearsAfterInit, 0), n, rmFails)
       IN PermReport(Ended([st |-> r.st, mode |-> mode, log |-> r.log]),
                     "sign", n,
                     [cmd |-> "sign", sign |-> TRUE, rmFails |-> rmFails,
                      chmodFails |-> FALSE])

InitPerm ==
  /\ variant = "subcmd"
  /\ fs = EmptyFS
  /\ last = NoLast
  /\ invocation = 0
  /\ RSASize = DefaultRSASize
  /\ rsaErr = ""
  /\ rsaArg = DefaultRSASize
  /\ Host = NoHost
  /\ hostErr = ""
  /\ hostArg = <<>>
  /\ argv = NoArgv
  /\ stdout = <<>>
  /\ toolFile = NoPath
  /\ cwd = NoFiles
  /\ procs = NoProcs
  /\ mode \in { [NoMode EXCEPT !.root = b] : b \in BOOLEAN }

NextPerm == PermInit \/ PermCA \/ PermReq \/ PermSign

SpecPerm == InitPerm /\ [][NextPerm]_vars

\* --------------------------------------------------------------- GoBlock

\* Byte sequences of every length up to MaxBlockLen: arithmetic runs from
\* a first byte, modulo 256.
BlockInputs ==
  { [i \in 1..n |-> (first + (i - 1) * step) % 256] :
      n \in 0..MaxBlockLen, first \in {0, 9, 250}, step \in {1, 100} }

\* fmt.Print(GoBlock(b).String())
GoBlockPrint ==
  /\ \E b \in BlockInputs :
       LET r == GoBlockCall(b)
       IN /\ argv' = [cmd |-> "goblock", b |-> b]
          /\ stdout' = r.text
          /\ last' = [cmd |-> "goblock", name |-> NoName, exit |-> r.exit,
                      msg |-> r.msg, tool |-> 0, config |-> "none",
                      yearsArg |-> NoYears, envFail |-> FALSE]
  /\ invocation' = 1 - invocation
  /\ UNCHANGED <<variant, fs, rsaVars, hostVars, toolFile, cwd, procs, mode>>

NextBlock == GoBlockPrint

SpecBlock == Init /\ [][NextBlock]_vars

\* ------------------------------------------- self-signed certificates
\* cwd holds the files of the generator; the file named by -file in the
\* working directory is the user's and may be there from the start, and
\* so may files of another name in every directory.
\* mode.root says whether os.Getuid() is 0.

CertArgs ==
  [root : BOOLEAN, langGo : BOOLEAN, debug : BOOLEAN, read : BOOLEAN,
   overwrite : BOOLEAN, file : FileNames, keyBad : BOOLEAN]

CertReport(r, a, fail) ==
  /\ cwd' = r.files
  /\ argv' = [cmd |-> "generate", a |-> a, fail |-> fail]
  /\ last' = [cmd |-> "generate", name |-> NoName, exit |-> r.exit,
              msg |-> r.msg, tool |-> r.tool, config |-> "none",
              yearsArg |-> NoYears, envFail |-> fail # "none"]
  /\ invocation' = 1 - invocation
  /\ UNCHANGED <<variant, fs, rsaVars, hostVars, stdout, toolFile, procs, mode>>

Mkcert ==
  /\ variant = "mkcert"
  /\ \E a \in CertArgs, fail \in CertFails :
       /\ ~a.keyBad
       /\ CertReport(MainMkcert(cwd, a, mode.root, fail), a, fail)

Generate ==
  /\ variant = "generate"
  /\ \E a \in CertArgs, fail \in CertFails :
       CertReport(MainGenerate(cwd, a, mode.root, fail), a, fail)

InitCert ==
  /\ variant \in CertVariants
  /\ fs = EmptyFS
  /\ last = NoLast
  /\ invocation = 0
  /\ RSASize = DefaultRSASize
  /\ rsaErr = ""
  /\ rsaArg = DefaultRSASize
  /\ Host = NoHost
  /\ hostErr = ""
  /\ hostArg = <<>>
  /\ argv = NoArgv
  /\ stdout = <<>>
  /\ toolFile = NoPath
  /\ cwd \in { [p \in CertPaths |->
                   IF p.base = OtherFile THEN o
                   ELSE p = CertPath(WorkDir, DefaultFile, "") /\ b] :
                 b \in BOOLEAN, o \in BOOLEAN }
  /\ procs = NoProcs
  /\ mode \in { [NoMode EXCEPT !.root = b] : b \in BOOLEAN }

NextCert == Mkcert \/ Generate

SpecCert == InitCert /\ [][NextCert]_vars

\* ------------------------------------------------------------- properties

Invoked == invocation' # invocation
SetupCmds == {"setup", "setupca"}
CACmds == {"ca", "setupca"}
ReqCmds == {"req", "reqsign"}
SignCmds == {"sign", "reqsign"}

\* C1: from a fresh home directory, a successful setup followed by ca (two
\* invocations, the tool not failing for reasons of its own) leaves
\* certs/ca.crt and private/ca.key, and once they are there a further setup
\* or ca fails.
C1_SetupThenCA ==
  [][Invoked =>
       /\ (last.cmd = "setup" /\ last.exit = 0
           /\ last'.cmd = "ca" /\ ~last'.envFail)
          => /\ last'.exit = 0
             /\ fs'.crt[NAME_CA].present
             /\ fs'.key[NAME_CA] # 0
       /\ (fs.crt[NAME_CA].present /\ fs.key[NAME_CA] # 0
           /\ last'.cmd \in {"setup", "ca"})
          => last'.exit # 0]_vars

C3_SetupFailsOnExistingRoot ==
  [][(Invoked /\ last'.cmd \in SetupCmds /\ "root" \in fs.dirs) =>
       /\ last'.exit # 0
       /\ fs' = fs]_vars

C3_Witness ==
  /\ last.cmd \in SetupCmds
  /\ last.exit = 1
  /\ last.msg \in {MsgRootExists, MsgMkdir}
  /\ "root" \in fs.dirs

C5_CAYears ==
  (last.cmd \in CACmds /\ last.exit = 0) =>
    fs.crt[NAME_CA].days =
      365 * (IF last.yearsArg = NoYears THEN 10 ELSE last.yearsArg)

\* C6: a certificate of a NAME signed without the years flag is valid for
\* 365 days, whichever commands the program registers.
C6_DefaultYears ==
  (last.cmd \in SignCmds /\ last.exit = 0 /\ last.name \in UserNames
   /\ last.yearsArg = NoYears) =>
    fs.crt[last.name].days = 365

\* C7: a req NAME run while NAME.csr exists fails on that check, without
\* invoking the tool and with the request and the private key unchanged.
C7_ReqFailsOnExistingRequest ==
  [][(Invoked /\ last'.cmd \in ReqCmds /\ last'.name \in UserNames
      /\ fs.csr[last'.name].present) =>
       /\ last'.exit # 0
       /\ last'.msg = MsgReqExists
       /\ last'.tool = 0
       /\ fs'.csr[last'.name] = fs.csr[last'.name]
       /\ fs'.key[last'.name] = fs.key[last'.name]]_vars

C7_Witness ==
  /\ last.cmd \in ReqCmds
  /\ last.name \in UserNames
  /\ last.msg = MsgReqExists
  /\ last.tool = 0
  /\ fs.csr[last.name].present

C9_SerialCounter ==
  /\ fs.hasIndex <=> fs.serial # 0
  /\ fs.serial # 0 => fs.serial = Len(fs.index) + 1
  /\ \A i \in 1..Len(fs.index) : fs.index[i] = i
  /\ \A n \in AllNames :
       fs.crt[n].present => fs.crt[n].serial \in 1..Len(fs.index)
  /\ \A n, m \in AllNames :
       (n # m /\ fs.crt[n].present /\ fs.crt[m].present)
         => fs.crt[n].serial # fs.crt[m].serial
  /\ (fs.crt[NAME_CA].present /\ fs.crt[NAME_CA].selfsign)
       => fs.crt[NAME_CA].serial = 1

C9_Witness ==
  /\ fs.crt[NAME_CA].present
  /\ fs.crt[NAME_CA].serial = 1
  /\ fs.crt["a"].present
  /\ fs.crt["a"].serial = 2
  /\ fs.index = <<1, 2>>
  /\ fs.serial = 3

\* C10: Set accepts an integer exactly when it is at least 2048 and a
\* multiple of 1024; a smaller one gets the minimum-size error, another one
\* the multiple error, and a rejected value leaves the stored size, 2048 at
\* the start, as it was.
C10_RsaSize ==
  [][/\ (rsaErr' = "") <=> (rsaArg' >= 2048 /\ rsaArg' % 1024 = 0)
     /\ rsaArg' < 2048 => rsaErr' = errMinSize
     /\ (rsaArg' >= 2048 /\ rsaArg' % 1024 # 0) => rsaErr' = errSize
     /\ rsaErr' # "" => RSASize' = RSASize
     /\ rsaErr' = "" => RSASize' = rsaArg'
     /\ RSASize' >= 2048 /\ RSASize' % 1024 = 0]_vars

C10_Witness ==
  /\ rsaErr = errSize
  /\ rsaArg = 3000
  /\ RSASize = 4096

\* The strings that are IP literals in dotted-decimal form: four decimal
\* numerals of a byte, joined by dots.
ByteNumerals == { Itoa(n) : n \in 0..255 }
IsIPLiteral(t) ==
  LET f == Split(t, ".")
  IN Len(f) = 4 /\ \A i \in 1..4 : f[i] \in ByteNumerals
IsDotted(t) == \E i \in 1..Len(t) : t[i] = "."

\* The trimmed tokens of a value of -host.
HostTokensOf(value) ==
  LET f == Split(value, ",") IN [i \in 1..Len(f) |-> TrimSpace(f[i])]

\* A step in which Host.Set has been called.
HostParsed ==
  /\ hostArg' # <<>>
  /\ Invoked \/ hostVars' # hostVars
  /\ Invoked => last'.cmd = "req"

\* C11: an accepted value of -host adds, for each of its trimmed tokens in
\* order, the entry IP:token when the token is an IP literal and the entry
\* DNS:token otherwise; the rendered subjectAltName is the IP entries, then
\* the DNS entries, each group in input order, joined by ", ".
C11_HostClassified ==
  [][(HostParsed /\ hostErr' = "") =>
       LET toks == HostTokensOf(hostArg')
           ips == SelectSeq(toks, LAMBDA t : IsIPLiteral(t))
           names == SelectSeq(toks, LAMBDA t : ~IsIPLiteral(t))
           before == IF Invoked THEN NoHost ELSE Host
       IN /\ Host'.ip = before.ip
                \o [i \in 1..Len(ips) |-> <<"I", "P", ":">> \o ips[i]]
          /\ Host'.dns = before.dns
                \o [i \in 1..Len(names) |-> <<"D", "N", "S", ":">> \o names[i]]
          /\ hostFlagString(Host') =
                Join(Host'.ip \o Host'.dns, <<",", " ">>)]_vars

C11_Witness ==
  /\ hostErr = ""
  /\ hostArg = <<" ", "a", ".", "b", " ", ",",
                 "1", "0", ".", "0", ".", "0", ".", "1">>
  /\ Host.ip = << <<"I", "P", ":", "1", "0", ".", "0", ".", "0", ".", "1">> >>
  /\ Host.dns = << <<"D", "N", "S", ":", "a", ".", "b">> >>

\* C12: a value of -host is accepted exactly when each of its trimmed
\* tokens is an IP literal or holds a dot; any other value is rejected
\* with the error "must be an IP or DNS", and a req given such a value exits
\* with a non-zero status without invoking the tool or changing any file.
C12_HostAccepted ==
  [][HostParsed =>
       LET toks == HostTokensOf(hostArg')
       IN /\ (hostErr' = "") <=>
               \A i \in 1..Len(toks) : IsIPLiteral(toks[i]) \/ IsDotted(toks[i])
          /\ hostErr' # "" => hostErr' = errHost
          /\ (hostErr' # "" /\ Invoked)
               => /\ last'.exit # 0
                  /\ last'.tool = 0
                  /\ fs' = fs]_vars

C12_Witness ==
  /\ last.cmd = "req"
  /\ last.exit = 2
  /\ last.msg = errHost
  /\ hostErr = errHost
  /\ hostArg = <<"1", "0", ".", "0", ".", "0", ".", "1", ",">>
  /\ "root" \in fs.dirs
  /\ \A n \in AllNames : ~fs.csr[n].present

\* The lines ls is to print for the categories asked for: certificates,
\* requests, keys, each a line of base names when there is any.
LsLines(f, cert, req, key) ==
  LET line(ext) == [i \in 1..Len(Glob(f, ext)) |-> Glob(f, ext)[i]]
      sel == SelectSeq(<<[on |-> cert, ext |-> EXT_CERT],
                         [on |-> req, ext |-> EXT_REQUEST],
                         [on |-> key, ext |-> EXT_KEY]>>,
                       LAMBDA c : c.on /\ Glob(f, c.ext) # <<>>)
  IN [i \in 1..Len(sel) |-> line(sel[i].ext)]

\* C13: ls without -cert, -req and -key succeeds and prints the
\* certificates, then the requests, then the keys, by base name; ls -cert
\* prints the certificates only.
C13_LsAll ==
  (last.cmd = "ls") =>
    /\ (~argv.cert /\ ~argv.req /\ ~argv.key)
         => /\ last.exit = 0
            /\ stdout = LsLines(fs, TRUE, TRUE, TRUE)
    /\ (argv.cert /\ ~argv.req /\ ~argv.key)
         => /\ last.exit = 0
            /\ stdout = LsLines(fs, TRUE, FALSE, FALSE)

\* C14: an invocation ends with status 0, 1 or 2: 1 when a call of the tool
\* has failed, 2 when it is a usage error, such as a req or sign without
\* its NAME argument, and 0 when it has succeeded.
C14_ExitCodes ==
  (last.cmd # "none") =>
    /\ last.exit \in {0, 1, 2}
    /\ last.msg = MsgTool => last.exit = 1
    /\ (last.cmd \in ReqCmds \cup SignCmds /\ last.name = NoName)
         => last.exit = 2
    /\ last.msg = "" <=> last.exit = 0

\* C15: whenever a step of sign or ca has failed, be it an existence check,
\* a call of the tool, the removal of a file or the change of a mode, the
\* invocation has printed the error and ended at that step with a non-zero
\* status: it has reported one failure at most and has not succeeded.
C15_FailuresTerminal ==
  (last.cmd \in {"sign", "ca"}) =>
    /\ (last.msg # "" \/ stdout # <<>>) => last.exit # 0
    /\ Len(stdout) + (IF last.msg # "" THEN 1 ELSE 0) <= 1

\* The directories and files of the structure.
HasStructure(f) == {"root", "certs", "private"} \subseteq f.dirs
HasCAStructure(f) ==
  /\ {"newcerts", "crl"} \subseteq f.dirs
  /\ f.hasIndex
  /\ f.serial # 0

FilePathOf(cmd, v, cert, req, key) ==
  IF v[1] # "." /\ v[1] # "/"
  THEN IF cert \/ cmd = "info" THEN JoinPath("certs", v, ".crt")
       ELSE IF req THEN JoinPath("root", v, ".csr")
       ELSE JoinPath("private", v, ".key")
  ELSE AsPath(v)

\* C17: cat, chk and info, given the kind of file and a FILE that stands
\* for a file that is there, call the tool on the path that FILE stands
\* for: the file of that name in its directory for a bare name, and the
\* argument unchanged when it starts with a dot or a path separator.
C17_FilePath ==
  (/\ last.cmd \in {"cat", "chk", "info"}
   /\ Len(argv.args) = 1
   /\ argv.cmd = "info" \/ argv.cert \/ argv.req \/ argv.key
   /\ last.msg # MsgInfoFlag
   /\ Stat(fs, FilePathOf(argv.cmd, argv.args[1],
                          argv.cert, argv.req, argv.key)))
  => /\ last.tool >= 1
     /\ toolFile = FilePathOf(argv.cmd, argv.args[1],
                              argv.cert, argv.req, argv.key)

\* What info is to print for the flags given: the end date, the hash, the
\* issuer and the subject, for those of the four flags that are set, and
\* the full information when none is.
InfoLines(given) ==
  IF given = <<>> THEN << <<"subject", "issuer", "enddate">> >>
  ELSE LET sel == SelectSeq(<<[flag |-> "end-date", field |-> "enddate"],
                              [flag |-> "hash", field |-> "hash"],
                              [flag |-> "issuer", field |-> "issuer"],
                              [flag |-> "name", field |-> "subject"]>>,
                            LAMBDA c : IsGiven(given, c.flag))
       IN [i \in 1..Len(sel) |-> <<sel[i].field>>]

\* C18: info on the name of a certificate that is there succeeds and
\* prints the end date, the hash, the issuer and the subject, in this
\* order, for those of -end-date, -hash, -issuer, -name that are set, in
\* whatever order they were given; with none of them set it prints the
\* full information.
C18_InfoOrder ==
  (/\ last.cmd = "info"
   /\ ~argv.full
   /\ Len(argv.args) = 1
   /\ argv.args[1] \in {Chars[n] : n \in AllNames}
   /\ Stat(fs, JoinPath("certs", argv.args[1], ".crt")))
  => /\ last.exit = 0
     /\ stdout = InfoLines(argv.given)

\* The bytes that a byte-array literal of Go denotes: the numbers before
\* its commas; no bytes at all when the text is not such a literal.
RECURSIVE NumeralVal(_)
NumeralVal(d) ==
  IF d = <<>> THEN 0
  ELSE NumeralVal(SubSeq(d, 1, Len(d) - 1)) * 10 + DigitVal(d[Len(d)])
\* The number that ends right before the comma at position k of t.
NumberBefore(t, k) ==
  LET from == CHOOSE j \in 1..k :
                /\ \A i \in j..(k - 1) : IsDigit(t[i])
                /\ j = 1 \/ ~IsDigit(t[j - 1])
  IN NumeralVal(SubSeq(t, from, k - 1))
LiteralFrom(t) ==
  LET commas == SelectSeq([i \in 1..Len(t) |-> i], LAMBDA i : t[i] = ",")
  IN [n \in 1..Len(commas) |-> NumberBefore(t, commas[n])]
LiteralBytes(t) ==
  IF /\ Len(t) > 8
     /\ SubSeq(t, 1, 7) = <<"[", "]", "b", "y", "t", "e", "{">>
     /\ t[Len(t)] = "}"
     /\ \A i \in 8..(Len(t) - 1) :
          IsDigit(t[i]) \/ t[i] \in {",", " ", "\n", "\t"}
  THEN LiteralFrom(t)
  ELSE <<>>

\* C19: lang leaves every generated file that is there as it is; when a
\* file that it is to write (z-srv_cert.go for a server, z-clt_cert.go for
\* the client) is there, it fails and writes nothing; and when it succeeds
\* in writing the server's file, the three byte-array literals of that file
\* denote the bytes of the certificate of the authority, of
\* certs/<server>.crt and of private/<server>.key.
C19_LangNoOverwrite ==
  [][(Invoked /\ last'.cmd = "lang") =>
       LET writesSrv == variant = "flags" \/ argv'.server # <<>>
           writesClt == variant = "flags" \/ argv'.client
       IN /\ \A x \in {"srv", "clt"} : cwd[x].there => cwd'[x] = cwd[x]
          /\ ((writesSrv /\ cwd.srv.there) \/ (writesClt /\ cwd.clt.there))
               => last'.exit # 0 /\ cwd' = cwd
          /\ (last'.exit = 0 /\ writesSrv)
               => /\ cwd'.srv.there
                  /\ LiteralBytes(cwd'.srv.CACert)
                       = ReadFile(fs, CAPath(argv'.ca))
                  /\ LiteralBytes(cwd'.srv.Cert)
                       = ReadFile(fs, JoinPath("certs", argv'.server, ".crt"))
                  /\ LiteralBytes(cwd'.srv.Key)
                       = ReadFile(fs, JoinPath("private", argv'.server, ".key"))
    ]_vars

\* lang has written the file of server a, with the 20 bytes of its
\* certificate on two lines, and a later lang for the server has failed on
\* the file.
C19_Witness ==
  /\ last.cmd = "lang"
  /\ last.msg = MsgGenExists
  /\ argv.server = Chars["a"]
  /\ fs.crt["a"].present
  /\ LiteralBytes(cwd.srv.Cert) = CertBytes(fs.crt["a"])
  /\ LiteralBytes(cwd.srv.Key) = KeyBytes(fs.key["a"])
  /\ \E i \in 1..Len(cwd.srv.Cert) : cwd.srv.Cert[i] = "\n" /\ i > 10
                                      /\ i < Len(cwd.srv.Cert) - 2

\* Is the file that process r checks for there?
CheckedFileThere(f, r) ==
  IF r.cmd = "req" THEN f.csr[r.name].present ELSE f.crt[r.name].present

\* C20: the existence check of req and of sign is a bare check: it passes
\* exactly when the file is not there at that moment, whatever another
\* invocation for the same NAME is doing, and it leaves nothing behind;
\* and the call of the tool of a process that has passed it puts that
\* process's key and request, or certificate, in the place of whatever is
\* there by then.
C20_BareChecks ==
  [][\A p \in Procs :
       LET r == procs.run[p]
           r2 == procs'.run[p]
       IN /\ (r.pc = "start" /\ r2.pc # "start")
               => /\ (r2.pc = "checked") <=> ~CheckedFileThere(fs, r)
                  /\ fs' = fs
                  /\ procs'.run[3 - p] = procs.run[3 - p]
          /\ (r.pc = "checked" /\ r2.pc = "tooled" /\ r.cmd = "req")
               => /\ fs'.key[r.name] = r2.wrote
                  /\ fs'.csr[r.name].key = r2.wrote
                  /\ fs.key[r.name] # r2.wrote
          /\ (r.pc = "checked" /\ r2.pc = "tooled" /\ r.cmd = "sign")
               => /\ fs'.crt[r.name].serial = r2.wrote
                  /\ fs.crt[r.name].serial # r2.wrote
    ]_vars

\* Two invocations of sign a have both passed the check and succeeded: the
\* certificate of a is the one of the later serial number, and the other,
\* which is in the database, has been overwritten; before that, two
\* invocations of req a had both succeeded, and of their two keys only the
\* later one is left.
C20_Witness ==
  /\ \A p \in Procs :
       /\ procs.run[p].pc = "done"
       /\ procs.run[p].cmd = "sign"
       /\ procs.run[p].name = "a"
       /\ procs.run[p].exit = 0
  /\ procs.run[1].wrote # procs.run[2].wrote
  /\ \E p \in Procs :
       /\ fs.crt["a"].serial = procs.run[p].wrote
       /\ procs.run[3 - p].wrote < procs.run[p].wrote
       /\ \E i \in 1..Len(fs.index) : fs.index[i] = procs.run[3 - p].wrote
  /\ fs.nkeys = fs.key[NAME_CA] + 2
  /\ fs.key["a"] = fs.nkeys
  /\ fs.key["b"] = 0

\* C21: whenever the certificate and the key of a name are both there, the
\* key is the one that was made with the request that the certificate was
\* signed from.
C21_KeyOfCertificate ==
  \A n \in UserNames :
    (fs.crt[n].present /\ fs.key[n] # 0) => fs.key[n] = fs.crt[n].key

\* C22: req -sign NAME, when the certificate of NAME is there, fails and
\* leaves the request and the key of NAME as they were.
C22_SignCheckFirst ==
  [][(/\ Invoked
      /\ last'.cmd = "reqsign"
      /\ last'.name # NoName
      /\ fs.crt[last'.name].present)
     => /\ last'.exit # 0
        /\ fs'.csr[last'.name] = fs.csr[last'.name]
        /\ fs'.key[last'.name] = fs.key[last'.name]
    ]_vars

\* C28: ca.csr is gone after a ca that has succeeded and could remove it;
\* the key that a ca or a req has written has mode 0400 unless the change
\* of the mode failed; private has mode 0710 after a setup that has
\* succeeded; and a ca or req that could not remove the request or change
\* the mode of the key has printed that and ended with status 0.
C28_KeyModes ==
  [][Invoked =>
       /\ (last'.cmd = "ca" /\ last'.exit = 0 /\ ~argv'.rmFails)
            => ~fs'.csr[NAME_CA].present
       /\ (/\ last'.cmd \in {"ca", "req", "reqsign"}
           /\ fs'.key[last'.name] # fs.key[last'.name]
           /\ last'.cmd = "ca" => last'.exit = 0
           /\ ~argv'.chmodFails)
            => mode'.key[last'.name] = "0400"
       /\ (last'.cmd = "setup" /\ last'.exit = 0) => mode'.private = "0710"
       /\ (last'.cmd \in {"ca", "req"} /\ stdout' # <<>>)
            => /\ last'.exit = 0
               /\ \A i \in 1..Len(stdout') : stdout'[i] \in {MsgRemove, MsgChmod}
    ]_vars

\* After a setup and a ca, a req of a has succeeded: ca.csr is gone, both
\* keys have mode 0400 and private has mode 0710.
C28_Witness ==
  /\ last.cmd = "req"
  /\ last.name = "a"
  /\ last.exit = 0
  /\ fs.csr["a"].present
  /\ mode.key["a"] = "0400"
  /\ fs.crt[NAME_CA].present
  /\ ~fs.csr[NAME_CA].present
  /\ mode.key[NAME_CA] = "0400"
  /\ mode.private = "0710"

\* C23: a setup that starts without the root directory and fails leaves no
\* root directory, so that the next setup is not turned down for it.
C23_SetupAllOrNothing ==
  [][(/\ Invoked
      /\ last'.cmd \in SetupCmds
      /\ "root" \notin fs.dirs
      /\ last'.exit # 0)
     => "root" \notin fs'.dirs
    ]_vars

\* C24: when the tool fails in a sign of NAME whose request is there, the
\* invocation ends with status 1 and the request, the configuration
\* NAME.cfg and the rest of the files are as they were.
C24_SignToolFailure ==
  [][(/\ Invoked
      /\ last'.cmd = "sign"
      /\ last'.name # NoName
      /\ last'.msg = MsgTool
      /\ fs.csr[last'.name].present)
     => /\ last'.exit = 1
        /\ fs'.csr[last'.name] = fs.csr[last'.name]
        /\ fs'.cfg[last'.name] = fs.cfg[last'.name]
        /\ fs' = fs
    ]_vars

\* The tool has failed in sign a; the request of a, made with -host, and
\* a.cfg are there, and there is no certificate of a.
C24_Witness ==
  /\ last.cmd = "sign"
  /\ last.name = "a"
  /\ last.msg = MsgTool
  /\ last.exit = 1
  /\ last.envFail
  /\ fs.csr["a"].present
  /\ fs.csr["a"].config = "srv"
  /\ fs.cfg["a"]
  /\ ~fs.crt["a"].present
  /\ fs.crt[NAME_CA].present

\* C25: NAME.cfg is there only while a request of NAME made with -host is
\* there, and a sign of NAME uses the configuration of the server only for
\* a request that was made with -host.
C25_ServerConfigPending ==
  [][Invoked =>
       /\ \A n \in UserNames :
            fs'.cfg[n] => (fs'.csr[n].present /\ fs'.csr[n].config = "srv")
       /\ (/\ last'.cmd = "sign"
           /\ last'.name # NoName
           /\ last'.exit = 0
           /\ last'.config = "srv")
            => fs.csr[last'.name].config = "srv"
    ]_vars

\* C26: a call of Set of the host flag that returns the error leaves the
\* lists of IP and DNS entries as they were before the call (empty, when
\* the call is the first of its process).
C26_HostSetFrame ==
  [][(hostErr' = errHost /\ hostErr = "")
     => Host' = (IF Invoked THEN NoHost ELSE Host)
    ]_vars

\* The places of the commas of a text.
CommasOf(t) == SelectSeq([i \in 1..Len(t) |-> i], LAMBDA i : t[i] = ",")

\* C27: for every sequence of bytes, the empty one too, String of GoBlock
\* returns a literal whose numbers are the bytes in order; after every
\* 18th number but the last comes a line break, after each other number
\* but the last one space, after the last the line break of the closing
\* brace, and no space stands before a line break.
C27_GoBlockRoundTrip ==
  (last.cmd = "goblock") =>
    /\ last.exit = 0
    /\ Len(stdout) >= 8
    /\ SubSeq(stdout, 1, 7) = <<"[", "]", "b", "y", "t", "e", "{">>
    /\ stdout[Len(stdout)] = "}"
    /\ Len(argv.b) > 0 => LiteralBytes(stdout) = argv.b
    /\ Len(CommasOf(stdout)) = Len(argv.b)
    /\ \A k \in 1..Len(CommasOf(stdout)) :
         LET at == CommasOf(stdout)[k]
         IN IF k = Len(CommasOf(stdout)) \/ k % 18 = 0
            THEN stdout[at + 1] = "\n"
            ELSE stdout[at + 1] = " " /\ IsDigit(stdout[at + 2])
    /\ \A i \in 1..(Len(stdout) - 1) :
         ~(stdout[i] = " " /\ stdout[i + 1] = "\n")

\* The files the generator tests, and the runs that get as far as the test.
CertChecked(a) == IF a.root THEN {certFile(a), keyFile(a)} ELSE {certFile(a), keyFile(a), fFile(a)}

CertReachesTest(v, a, uid0, fail) ==
  /\ ~a.read
  /\ ~UsageCert(v, a)
  /\ fail # "lookpath"
  /\ a.root => uid0
  /\ a.keyBad => uid0

\* C29: a generating run (one that is not a reading run: -hash of
\* go.mkcert, -chk, -p or -cert of the first easycert) without -overwrite,
\* started when the certificate file, the key file or, unless -root/-sys
\* is given, the file named by -file exists, ends with a failure status,
\* has not run openssl and has left every file as it was; the run that
\* gets as far as the test dies with "File already exists". With
\* -overwrite no run dies with that message, and a run with valid flags
\* and no failing environment runs openssl over the existing files and
\* ends with status 0.
C29_OverwriteCheck ==
  [][ (Invoked /\ last'.cmd = "generate" /\ ~argv'.a.read) =>
        LET a == argv'.a
            there == \E p \in CertChecked(a) : cwd[p]
            reaches == CertReachesTest(variant, a, mode.root, argv'.fail)
        IN  /\ (~a.overwrite /\ there) =>
                 /\ last'.exit \in {1, 2}
                 /\ last'.tool = 0
                 /\ cwd' = cwd
                 /\ reaches => (last'.exit = 1 /\ last'.msg = MsgFileExists)
            /\ a.overwrite =>
                 /\ last'.msg # MsgFileExists
                 /\ (reaches /\ argv'.fail = "none") =>
                      (last'.exit = 0 /\ last'.tool = 1)
            /\ (~a.overwrite /\ ~there) => last'.msg # MsgFileExists ]_vars

C29_Witness ==
  /\ last.cmd = "generate"
  /\ last.exit = 1
  /\ last.msg = MsgFileExists
  /\ last.tool = 0
  /\ ~argv.a.overwrite
  /\ argv.a.langGo
  /\ cwd[fFile(argv.a)]

====
